---- MODULE Spec2Model ----
(***************************************************************************)
(* Lane-aware auto layout and connector collision resolution of the BPMN   *)
(* editor: rank assignment (layout.graph), lane geometry (layout.geometry),*)
(* Manhattan routing (layout.waypoints), collision detection and the line  *)
(* drift resolver (layout.collision, BpmnLayoutService) and the debounced  *)
(* trigger of the resolver (BpmnModelerComponent.initLineDrift).           *)
(*                                                                         *)
(* Each subsystem has its own specification over its own variables; the    *)
(* variables of the other subsystems stay at their idle values.            *)
(***************************************************************************)
EXTENDS Integers, Sequences, FiniteSets, TLC

VARIABLES
    \* ---- rank assignment (buildGraphFromElements / assignRanks) ----
    outgoing,   \* element id -> sequence of target ids of its outgoing flows
    rank,       \* nodeMap: element id -> LayoutNode.rank
    queue,      \* the work queue of assignRanks
    pcRank,     \* "edit" | "run" | "done": position of the caller in assignRanks
    pops,       \* number of queue.shift() executed by the running assignRanks
    \* ---- Manhattan routing (computeManhattanWaypoints) ----
    routeSource,  \* bounding box of the source shape: [x, y, width, height]
    routeTarget,  \* bounding box of the target shape
    routed,       \* the returned waypoints, coordinates in half pixels
    pcRoute,      \* "input" | "routed"
    \* ---- the diagram's sequence flows (elementRegistry) ----
    connections,  \* registry order: sequence of [id, source, target, waypoints]
    \* ---- one call of computeResolvedWaypoints ----
    driftTarget,  \* registry position of targetConnection (0: no call yet)
    fanned,       \* [waypoints, updated] after the parallel fan-out block
    resolved,     \* the returned [waypoints, updated]
    nudgeSteps,   \* the iterations of the nudge loop: [other, parallel, before, after]
    pcDrift,      \* "input" | "fanned" | "returned"
    \* ---- calls of BpmnLayoutService.resolveEdgeCollisions ----
    before,       \* the registry as the last call found it
    updates,      \* modeling.updateWaypoints commands issued by the last call
    passes,       \* passes executed by the last call
    runs,         \* calls of resolveEdgeCollisions so far
    resolveLog,   \* the computeResolvedWaypoints calls of the last call, in
                  \* order: [pass, k, seen, result], seen the registry as the
                  \* call read it
    \* ---- the debounced trigger (BpmnModelerComponent.initLineDrift) ----
    timeout,      \* ms left on the debounce timer, -1 when none is pending
    isAdjusting,  \* the resolver's flag
    resetTimer,   \* ms left on the timer that clears isAdjusting, -1 when none
    selfArmed,    \* the pending debounce timer was last armed by a notification
                  \* of the resolver's own updateWaypoints
    selfRuns,     \* resolver runs started by such a timer
    edits,        \* user edits so far
    sinceEvent,   \* ms passed since debouncedCheck was last called
    burstLen,     \* calls of debouncedCheck since the timer was last idle or due
    runsSinceEvent, \* resolver runs started since debouncedCheck was last called
    startedAt,    \* sinceEvent when the last resolver run started, -1 before any
    conflicts,    \* what the last detectCollisions call returned
    \* ---- lane geometry (layout.geometry) ----
    lanes,        \* the lane elements, registry order: [id, height]
    nodes,        \* nodeMap in insertion order: [id, laneId, rank, width, height]
    laneData,     \* LaneMeta per lane, map order: [id, height, nodesByRank]
    maxGlobalRank,
    rootId,       \* id of canvas.getRootElement() as autoLayout read it
    rankWidths,   \* rank -> column width
    laneResizes,  \* computeLayout's laneResizes
    nodePositions,\* computeLayout's nodePositions
    commands,     \* the modeling commands autoLayout issued, in order
    registry,     \* the elementRegistry autoLayout is called on
    pcLayout,     \* "entry" | "input" | "built" | "heights" | "done", and
                  \* "first" before the first of two runs
    \* ---- one pair of segments under the collision test ----
    segA,         \* [connectionId, p1, p2, orientation]
    segB,
    segThreshold, \* the threshold argument
    collidesAB,   \* checkSegmentCollision(segA, segB, segThreshold)
    collidesBA,   \* checkSegmentCollision(segB, segA, segThreshold)
    reported,     \* detectCollisions([segA, segB], segThreshold)
    pcSeg         \* "input" | "checked"

rankVars == <<outgoing, rank, queue, pcRank, pops>>
routeVars == <<routeSource, routeTarget, routed, pcRoute>>
driftVars == <<driftTarget, fanned, resolved, nudgeSteps, pcDrift>>
resolveVars == <<before, updates, passes, runs, resolveLog>>
hostVars == <<timeout, isAdjusting, resetTimer, selfArmed, selfRuns, edits,
              sinceEvent, burstLen, runsSinceEvent, startedAt, conflicts>>
layoutVars == <<lanes, nodes, laneData, maxGlobalRank, rootId, rankWidths,
                laneResizes, nodePositions, commands, registry, pcLayout>>
segVars == <<segA, segB, segThreshold, collidesAB, collidesBA, reported, pcSeg>>
vars == <<rankVars, routeVars, connections, driftVars, resolveVars, hostVars, layoutVars, segVars>>

----------------------------------------------------------------------------
(* Generic helpers *)

Max(a, b) == IF a >= b THEN a ELSE b
Min(a, b) == IF a <= b THEN a ELSE b
Abs(a) == IF a >= 0 THEN a ELSE -a

RECURSIVE SeqSum(_)
SeqSum(s) == IF s = <<>> THEN 0 ELSE Head(s) + SeqSum(Tail(s))

----------------------------------------------------------------------------
(* Rank assignment *)

NumNodes == 3        \* flow elements of the snapshot, ids 1..NumNodes in registry order
MaxEdges == 4        \* outgoing sequence flows drawn in the diagram
RankCap == 8         \* a pop is only explored while the popped rank is below this

Nodes == 1 .. NumNodes
Dangling == NumNodes + 1          \* a target that is not a flow element of the snapshot
Targets == Nodes \cup {Dangling}

RankFrame == UNCHANGED <<routeVars, connections, driftVars, resolveVars, hostVars, layoutVars, segVars>>

RankIdle ==
    /\ outgoing = [n \in Nodes |-> <<>>]
    /\ rank = [n \in Nodes |-> 0]
    /\ queue = <<>>
    /\ pcRank = "edit"
    /\ pops = 0

\* buildGraphFromElements: adjacency keeps, in order, the targets that are nodes
IsNode(t) == t \in Nodes
Adjacency(u) == SelectSeq(outgoing[u], IsNode)

\* assignRanks, in-degree recomputed from the adjacency list
InDegree(v) ==
    SeqSum([u \in Nodes |->
              Cardinality({i \in 1 .. Len(Adjacency(u)) : Adjacency(u)[i] = v})])

RECURSIVE SeedQueue(_)
SeedQueue(n) ==
    IF n = 0 THEN <<>>
    ELSE IF InDegree(n) = 0 THEN Append(SeedQueue(n - 1), n) ELSE SeedQueue(n - 1)

\* queue seeding: all zero in-degree nodes in map order, else the first key
InitialQueue ==
    IF SeedQueue(NumNodes) = <<>> /\ NumNodes > 0 THEN <<1>> ELSE SeedQueue(NumNodes)

RelaxBug(nextRank, currRank) == nextRank < currRank
\* the relaxation test of the inner loop
Relax(nextRank, currRank) == nextRank <= currRank

\* the for-loop over the neighbours of the popped node: st = [rank, queue]
RECURSIVE VisitNeighbors(_, _, _)
VisitNeighbors(curr, nbrs, st) ==
    IF nbrs = <<>> THEN st
    ELSE LET nxt == Head(nbrs)
         IN  IF Relax(st.rank[nxt], st.rank[curr])
             THEN VisitNeighbors(curr, Tail(nbrs),
                     [rank  |-> [st.rank EXCEPT ![nxt] = st.rank[curr] + 1],
                      queue |-> Append(st.queue, nxt)])
             ELSE VisitNeighbors(curr, Tail(nbrs), st)

TotalOutgoing == SeqSum([n \in Nodes |-> Len(outgoing[n])])

\* the host diagram gains a sequence flow from element u to target t
AddOutgoing(u, t) ==
    /\ pcRank = "edit"
    /\ TotalOutgoing < MaxEdges
    /\ outgoing' = [outgoing EXCEPT ![u] = Append(@, t)]
    /\ UNCHANGED <<rank, queue, pcRank, pops>>
    /\ RankFrame

\* buildGraphFromElements followed by the prologue of assignRanks
StartAssignRanks ==
    /\ pcRank = "edit"
    /\ rank' = [n \in Nodes |-> 0]
    /\ queue' = InitialQueue
    /\ pcRank' = "run"
    /\ pops' = 0
    /\ UNCHANGED outgoing
    /\ RankFrame

\* one iteration of while (queue.length > 0)
PopNode ==
    /\ pcRank = "run"
    /\ queue # <<>>
    /\ rank[Head(queue)] < RankCap
    /\ LET curr == Head(queue)
           st == VisitNeighbors(curr, Adjacency(curr), [rank |-> rank, queue |-> Tail(queue)])
       IN  /\ rank' = st.rank
           /\ queue' = st.queue
    /\ pops' = pops + 1
    /\ UNCHANGED <<outgoing, pcRank>>
    /\ RankFrame

\* the while loop exits on the empty queue and assignRanks returns
FinishAssignRanks ==
    /\ pcRank = "run"
    /\ queue = <<>>
    /\ pcRank' = "done"
    /\ UNCHANGED <<outgoing, rank, queue, pops>>
    /\ RankFrame

RankNext ==
    \/ \E u \in Nodes, t \in Targets : AddOutgoing(u, t)
    \/ StartAssignRanks
    \/ PopNode
    \/ FinishAssignRanks


----------------------------------------------------------------------------
(* Properties of rank assignment *)

Succ(u) == {Adjacency(u)[i] : i \in 1 .. Len(Adjacency(u))}
Pred(v) == {u \in Nodes : v \in Succ(u)}

RECURSIVE ReachFrom(_)
ReachFrom(S) ==
    LET T == S \cup UNION {Succ(u) : u \in S}
    IN  IF T = S THEN S ELSE ReachFrom(T)

\* a path of zero or more edges leads from a to b
PathExists(a, b) == b \in ReachFrom({a})

Acyclic == \A u \in Nodes : \A v \in Succ(u) : ~PathExists(v, u)

SetMin(S) == CHOOSE m \in S : \A n \in S : m <= n

SetMax(S) == CHOOSE m \in S : \A x \in S : x <= m

\* number of nodes on the longest simple path that starts at u and avoids seen
RECURSIVE LongestFrom(_, _)
LongestFrom(u, seen) ==
    LET nxt == Succ(u) \ (seen \cup {u})
    IN  IF nxt = {} THEN 1
        ELSE 1 + SetMax({LongestFrom(v, seen \cup {u}) : v \in nxt})

LongestSimplePath == SetMax({LongestFrom(u, {}) : u \in Nodes})

\* number of edges of the longest path that ends at v (acyclic graphs only)
RECURSIVE LongestPathTo(_)
LongestPathTo(v) ==
    IF Pred(v) = {} THEN 0 ELSE 1 + SetMax({LongestPathTo(u) : u \in Pred(v)})

\* C1: after assignRanks has finished, every edge u->v with no path from v
\* back to u has rank(v) > rank(u), whatever else the graph contains.
C1_RankMonotone ==
    pcRank = "done" =>
        \A u \in Nodes : \A v \in Succ(u) :
            ~PathExists(v, u) => rank[v] > rank[u]

\* C2: assignRanks empties its queue after at most nodes x longest simple
\* path pops (the path counted in nodes), also on graphs with cycles.
C2_PopsBounded ==
    pcRank \in {"run", "done"} => pops <= NumNodes * LongestSimplePath

\* C9: on an acyclic graph the finished ranks are the longest-path layers:
\* 0 for a node without incoming edge, else the length in edges of the
\* longest path ending at the node.
C9_LongestPathLayering ==
    (pcRank = "done" /\ Acyclic) =>
        \A v \in Nodes : rank[v] = LongestPathTo(v)

\* an acyclic run in which a node was re-ranked and re-enqueued, up to rank 2
C9_Witness ==
    /\ pcRank = "done"
    /\ Acyclic
    /\ \E v \in Nodes : rank[v] = 2
    /\ pops > NumNodes
    /\ \E u \in Nodes : Dangling \in {outgoing[u][i] : i \in 1 .. Len(outgoing[u])}

----------------------------------------------------------------------------
(* Manhattan routing.  Box coordinates are whole pixels; the code halves    *)
(* sums of them, so the returned points are kept in half pixels (every      *)
(* coordinate of a returned point is twice its value in pixels).            *)

BoxXs == {0, 120, 130, 300}
BoxYs == {0, 55}
BoxSizes == {<<36, 36>>, <<100, 80>>, <<50, 45>>}
Boxes == {[x |-> bx, y |-> by, width |-> sz[1], height |-> sz[2]] :
            bx \in BoxXs, by \in BoxYs, sz \in BoxSizes}

RouteIdle ==
    /\ routeSource = [x |-> 0, y |-> 0, width |-> 0, height |-> 0]
    /\ routeTarget = [x |-> 0, y |-> 0, width |-> 0, height |-> 0]
    /\ routed = <<>>
    /\ pcRoute = "input"

HalfPoint(x2, y2) == [x |-> x2, y |-> y2]

computeManhattanWaypointsBug(sourceX, sourceY, sourceWidth, sourceHeight, targetX, targetY, targetWidth, targetHeight) ==
    LET sourceCenterX2 == 2 * sourceX + sourceWidth
        sourceCenterY2 == 2 * sourceY + sourceHeight
        targetCenterY2 == 2 * targetY + targetHeight
        midX2 == sourceX + sourceWidth + targetX
        bendX2 == IF targetX > sourceX + sourceWidth + 20
                  THEN midX2 ELSE 2 * (targetX - 20)
    IN  << HalfPoint(sourceCenterX2, sourceCenterY2),
           HalfPoint(bendX2, sourceCenterY2),
           HalfPoint(bendX2, targetCenterY2),
           HalfPoint(2 * targetX, targetCenterY2) >>

computeManhattanWaypoints(sourceX, sourceY, sourceWidth, sourceHeight, targetX, targetY, targetWidth, targetHeight) ==
    LET sourceCenterY2 == 2 * sourceY + sourceHeight
        targetCenterY2 == 2 * targetY + targetHeight
        midX2 == sourceX + sourceWidth + targetX
        first == << HalfPoint(2 * (sourceX + sourceWidth), sourceCenterY2) >>
        bends == IF targetX > sourceX + sourceWidth + 20
                 THEN << HalfPoint(midX2, sourceCenterY2),
                         HalfPoint(midX2, targetCenterY2) >>
                 ELSE << HalfPoint(2 * (targetX - 20), sourceCenterY2),
                         HalfPoint(2 * (targetX - 20), targetCenterY2) >>
    IN  first \o bends \o << HalfPoint(2 * targetX, targetCenterY2) >>

RouteFrame == UNCHANGED <<rankVars, connections, driftVars, resolveVars, hostVars, layoutVars, segVars>>

\* rerouteConnections calls the router for one connection
RouteConnection ==
    /\ pcRoute = "input"
    /\ routed' = computeManhattanWaypoints(
                    routeSource.x, routeSource.y, routeSource.width, routeSource.height,
                    routeTarget.x, routeTarget.y, routeTarget.width, routeTarget.height)
    /\ pcRoute' = "routed"
    /\ UNCHANGED <<routeSource, routeTarget>>
    /\ RouteFrame

RouteNext == RouteConnection

RightCentre(b) == HalfPoint(2 * (b.x + b.width), 2 * b.y + b.height)
LeftCentre(b) == HalfPoint(2 * b.x, 2 * b.y + b.height)

\* C6 as stated: the router returns exactly 5 points, from the source's
\* right-centre to the target's left-centre.
C6_FivePoints ==
    pcRoute = "routed" =>
        /\ Len(routed) = 5
        /\ routed[1] = RightCentre(routeSource)
        /\ routed[Len(routed)] = LeftCentre(routeTarget)

\* C6 amended: the router returns exactly 4 points: the source's right-centre,
\* two bend points on one vertical line (the first level with the start, the
\* second level with the end), and the target's left-centre.
C6_FourPoints ==
    pcRoute = "routed" =>
        /\ Len(routed) = 4
        /\ routed[1] = RightCentre(routeSource)
        /\ routed[4] = LeftCentre(routeTarget)
        /\ routed[2].y = routed[1].y
        /\ routed[3].y = routed[4].y
        /\ routed[2].x = routed[3].x

\* both branches of the router, with a half-pixel centre
C6_Witness ==
    /\ pcRoute = "routed"
    /\ routeTarget.x <= routeSource.x + routeSource.width + 20
    /\ routeSource.height % 2 = 1
    /\ routeSource.width > 0
    /\ routed[2].x = 2 * (routeTarget.x - 20)

----------------------------------------------------------------------------
(* Collision detection (layout.collision) *)

collisionThreshold == 5
parallelOffset == 18

Pt(px, py) == [x |-> px, y |-> py]

getOrientationBug(p1, p2) ==
    IF Abs(p1.y - p2.y) < 2 THEN "horizontal"
    ELSE IF Abs(p1.x - p2.x) < 2 THEN "vertical"
    ELSE "diagonal"

getOrientation(p1, p2) ==
    IF Abs(p1.x - p2.x) < 2 THEN "vertical"
    ELSE IF Abs(p1.y - p2.y) < 2 THEN "horizontal"
    ELSE "diagonal"

checkIntervalOverlapBug(min1, max1, min2, max2) ==
    Max(min1, min2) < Min(max1, max2)

checkIntervalOverlap(min1, max1, min2, max2) ==
    Max(min1, min2) < Min(max1, max2) - 2

checkSegmentCollisionBug(seg1, seg2, threshold) ==
    IF seg1.orientation # seg2.orientation THEN FALSE
    ELSE IF seg1.orientation = "horizontal"
    THEN IF Abs(seg1.p2.y - seg2.p1.y) > threshold THEN FALSE
         ELSE checkIntervalOverlap(
                 Min(seg1.p1.x, seg1.p2.x), Max(seg1.p1.x, seg1.p2.x),
                 Min(seg2.p1.x, seg2.p2.x), Max(seg2.p1.x, seg2.p2.x))
    ELSE IF seg1.orientation = "vertical"
    THEN IF Abs(seg1.p2.x - seg2.p1.x) > threshold THEN FALSE
         ELSE checkIntervalOverlap(
                 Min(seg1.p1.y, seg1.p2.y), Max(seg1.p1.y, seg1.p2.y),
                 Min(seg2.p1.y, seg2.p2.y), Max(seg2.p1.y, seg2.p2.y))
    ELSE FALSE

checkSegmentCollision(seg1, seg2, threshold) ==
    IF seg1.orientation # seg2.orientation THEN FALSE
    ELSE IF seg1.orientation = "horizontal"
    THEN IF Abs(seg1.p1.y - seg2.p1.y) > threshold THEN FALSE
         ELSE checkIntervalOverlap(
                 Min(seg1.p1.x, seg1.p2.x), Max(seg1.p1.x, seg1.p2.x),
                 Min(seg2.p1.x, seg2.p2.x), Max(seg2.p1.x, seg2.p2.x))
    ELSE IF seg1.orientation = "vertical"
    THEN IF Abs(seg1.p1.x - seg2.p1.x) > threshold THEN FALSE
         ELSE checkIntervalOverlap(
                 Min(seg1.p1.y, seg1.p2.y), Max(seg1.p1.y, seg1.p2.y),
                 Min(seg2.p1.y, seg2.p2.y), Max(seg2.p1.y, seg2.p2.y))
    ELSE FALSE

Segment(connectionId, p1, p2) ==
    [connectionId |-> connectionId, p1 |-> p1, p2 |-> p2,
     orientation |-> getOrientation(p1, p2)]

extractSegmentsBug(connectionId, waypoints) ==
    [i \in 1 .. (Len(waypoints) - 2) |->
        Segment(connectionId, waypoints[i], waypoints[i + 1])]

extractSegments(connectionId, waypoints) ==
    [i \in 1 .. (Len(waypoints) - 1) |->
        Segment(connectionId, waypoints[i], waypoints[i + 1])]

\* the conflicts, each named by the positions i < j of its two segments in
\* allSegments; the code pushes them in lexicographic order of (i, j)
detectCollisions(allSegments, threshold) ==
    {ij \in (1 .. Len(allSegments)) \X (1 .. Len(allSegments)) :
        /\ ij[1] < ij[2]
        /\ allSegments[ij[1]].connectionId # allSegments[ij[2]].connectionId
        /\ checkSegmentCollision(allSegments[ij[1]], allSegments[ij[2]], threshold)}

applySegmentDriftBug(waypoints, segmentIndex, offset, orientation) ==
    IF segmentIndex < 0 \/ segmentIndex >= Len(waypoints) - 1 THEN waypoints
    ELSE [i \in 1 .. Len(waypoints) |->
            IF i = segmentIndex + 1
            THEN IF orientation = "horizontal"
                 THEN [waypoints[i] EXCEPT !.y = @ + offset]
                 ELSE [waypoints[i] EXCEPT !.x = @ + offset]
            ELSE waypoints[i]]

\* segmentIndex is zero-based, as in the code
applySegmentDrift(waypoints, segmentIndex, offset, orientation) ==
    IF segmentIndex < 0 \/ segmentIndex >= Len(waypoints) - 1 THEN waypoints
    ELSE [i \in 1 .. Len(waypoints) |->
            IF i = segmentIndex + 1 \/ i = segmentIndex + 2
            THEN IF orientation = "horizontal"
                 THEN [waypoints[i] EXCEPT !.y = @ + offset]
                 ELSE [waypoints[i] EXCEPT !.x = @ + offset]
            ELSE waypoints[i]]

applyDriftToWaypointsBug(waypoints, offset) ==
    [i \in 1 .. Len(waypoints) |->
        IF i - 1 >= 2 /\ i - 1 < Len(waypoints)
        THEN [waypoints[i] EXCEPT !.y = @ + offset]
        ELSE waypoints[i]]

\* for (i = 2; i < length - 1; i++) on zero-based i
applyDriftToWaypoints(waypoints, offset) ==
    [i \in 1 .. Len(waypoints) |->
        IF i - 1 >= 2 /\ i - 1 < Len(waypoints) - 1
        THEN [waypoints[i] EXCEPT !.y = @ + offset]
        ELSE waypoints[i]]

\* the first colliding pair (i, j) in scan order, i over conn1, j over conn2
checkConnectionOverlapDetails(waypoints1, waypoints2, threshold) ==
    LET hits == {ij \in (1 .. (Len(waypoints1) - 1)) \X (1 .. (Len(waypoints2) - 1)) :
                    LET seg1 == Segment("", waypoints1[ij[1]], waypoints1[ij[1] + 1])
                        seg2 == Segment("", waypoints2[ij[2]], waypoints2[ij[2] + 1])
                    IN  /\ seg1.orientation = seg2.orientation
                        /\ checkSegmentCollision(seg1, seg2, threshold)
                        /\ seg1.orientation # "diagonal"}
    IN  IF hits = {} THEN [found |-> FALSE]
        ELSE LET ij == CHOOSE h \in hits :
                          \A g \in hits : h[1] < g[1] \/ (h[1] = g[1] /\ h[2] <= g[2])
                 p1 == waypoints1[ij[1]]
                 p2 == waypoints1[ij[1] + 1]
                 q1 == waypoints2[ij[2]]
                 q2 == waypoints2[ij[2] + 1]
                 orientation == getOrientation(p1, p2)
             IN  [found |-> TRUE,
                  segmentIndex |-> ij[1] - 1,
                  orientation |-> orientation,
                  \* center1 >= center2, both centres doubled
                  isPositiveDirection |->
                      IF orientation = "horizontal"
                      THEN p1.y + p2.y >= q1.y + q2.y
                      ELSE p1.x + p2.x >= q1.x + q2.x]

IsParallel(a, b) ==
    \/ (a.source = b.source /\ a.target = b.target)
    \/ (a.source = b.target /\ a.target = b.source)

\* Array.sort by id.localeCompare; ids are unique
RECURSIVE InsertById(_, _)
InsertById(sorted, c) ==
    IF sorted = <<>> THEN <<c>>
    ELSE IF c.id < Head(sorted).id THEN <<c>> \o sorted
    ELSE <<Head(sorted)>> \o InsertById(Tail(sorted), c)

RECURSIVE SortById(_)
SortById(cs) == IF cs = <<>> THEN <<>> ELSE InsertById(SortById(Tail(cs)), Head(cs))

\* findIndex, zero-based
FindIndex(cs, id) == (CHOOSE i \in 1 .. Len(cs) : cs[i].id = id) - 1

\* computeResolvedWaypoints up to the end of the "parallelGroup" block
FanOutBlock(targetConnection, otherConnections) ==
    LET TestParallel(other) == IsParallel(targetConnection, other)
        parallelGroup == SelectSeq(otherConnections, TestParallel)
        allParallel == SortById(<<targetConnection>> \o parallelGroup)
        index == FindIndex(allParallel, targetConnection.id)
        n == Len(allParallel)
        \* (index - (n - 1) / 2) * parallelOffset, parallelOffset being even
        offset == ((2 * index - (n - 1)) * parallelOffset) \div 2
    IN  IF Len(parallelGroup) > 0 /\ Abs(offset) > 1
        THEN [waypoints |-> applyDriftToWaypoints(targetConnection.waypoints, offset),
              updated |-> TRUE]
        ELSE [waypoints |-> targetConnection.waypoints, updated |-> FALSE]

\* "if (overlap) { applySegmentDrift(waypoints, overlap.segmentIndex,
\* parallelOffset * direction, overlap.orientation) }"
Nudged(waypoints, overlap) ==
    applySegmentDrift(waypoints, overlap.segmentIndex,
                      parallelOffset * (IF overlap.isPositiveDirection THEN 1 ELSE -1),
                      overlap.orientation)

\* one iteration of the loop "for (const other of otherConnections)"; st =
\* [waypoints, updated, steps], steps the iterations so far: the other's id,
\* whether it was skipped as parallel, and the waypoints before and after
NudgeOne(targetConnection, other, st, overlap) ==
    IF IsParallel(targetConnection, other) THEN
        [st EXCEPT !.steps = Append(@, [other |-> other.id, parallel |-> TRUE,
                                        before |-> st.waypoints, after |-> st.waypoints])]
    ELSE IF overlap.found THEN
        [waypoints |-> Nudged(st.waypoints, overlap),
         updated |-> TRUE,
         steps |-> Append(st.steps, [other |-> other.id, parallel |-> FALSE,
                                     before |-> st.waypoints,
                                     after |-> Nudged(st.waypoints, overlap)])]
    ELSE
        [st EXCEPT !.steps = Append(@, [other |-> other.id, parallel |-> FALSE,
                                        before |-> st.waypoints, after |-> st.waypoints])]

\* the loop "for (const other of otherConnections)" over the remaining others
RECURSIVE NudgeLoop(_, _, _)
NudgeLoop(targetConnection, others, st) ==
    IF others = <<>> THEN st
    ELSE NudgeLoop(targetConnection, Tail(others),
            NudgeOne(targetConnection, Head(others), st,
                checkConnectionOverlapDetails(
                    st.waypoints, Head(others).waypoints, collisionThreshold)))

\* the loop starts on the waypoints the fan-out block left
AfterFanOut(f) == [waypoints |-> f.waypoints, updated |-> f.updated, steps |-> <<>>]

\* "return { waypoints, updated }"
Returned(st) == [waypoints |-> st.waypoints, updated |-> st.updated]

\* computeResolvedWaypoints with the iterations of its nudge loop
ResolvedWithSteps(targetConnection, otherConnections) ==
    IF Len(targetConnection.waypoints) < 2
    THEN [waypoints |-> targetConnection.waypoints, updated |-> FALSE, steps |-> <<>>]
    ELSE NudgeLoop(targetConnection, otherConnections,
            AfterFanOut(FanOutBlock(targetConnection, otherConnections)))

computeResolvedWaypoints(targetConnection, otherConnections) ==
    Returned(ResolvedWithSteps(targetConnection, otherConnections))

\* connections.filter((c) => c.id !== conn.id)
OthersOf(conns, id) ==
    LET NotMe(c) == c.id # id
    IN  SelectSeq(conns, NotMe)

----------------------------------------------------------------------------
(* The collision test on one pair of segments *)

PtXs == {0, 1, 10, 12, 20}
PtYs == {0, 1, 5}
Points == {Pt(px, py) : px \in PtXs, py \in PtYs}
Thresholds == {0, collisionThreshold}

NoSegment == [connectionId |-> 0, p1 |-> Pt(0, 0), p2 |-> Pt(0, 0), orientation |-> ""]

SegIdle ==
    /\ segA = NoSegment
    /\ segB = NoSegment
    /\ segThreshold = 0
    /\ collidesAB = FALSE
    /\ collidesBA = FALSE
    /\ reported = {}
    /\ pcSeg = "input"

SegFrame == UNCHANGED <<rankVars, routeVars, connections, driftVars, resolveVars, hostVars, layoutVars>>

\* the test is applied to the pair in both orders, and detectCollisions to the
\* list [segA, segB]
CheckSegments ==
    /\ pcSeg = "input"
    /\ collidesAB' = checkSegmentCollision(segA, segB, segThreshold)
    /\ collidesBA' = checkSegmentCollision(segB, segA, segThreshold)
    /\ reported' = detectCollisions(<<segA, segB>>, segThreshold)
    /\ pcSeg' = "checked"
    /\ UNCHANGED <<segA, segB, segThreshold>>
    /\ SegFrame

SegNext == CheckSegments

----------------------------------------------------------------------------
(* Properties of the collision test *)

\* C13: the collision test is symmetric: for every pair of segments and every
\* threshold, checkSegmentCollision(a, b) = checkSegmentCollision(b, a).
C13_CollisionSymmetric ==
    pcSeg = "checked" => collidesAB = collidesBA

\* two distinct horizontal segments, one of them sloping by a unit, at
\* different heights within the threshold, found colliding in both orders
C13_Witness ==
    /\ pcSeg = "checked"
    /\ collidesAB
    /\ collidesBA
    /\ segA.orientation = "horizontal"
    /\ segA.p1.y # segA.p2.y
    /\ segA.p1.y # segB.p1.y
    /\ segA.p1.x # segB.p1.x

\* length of the common part of the two projections on the axis the segments
\* run along (negative when the projections are apart)
ProjectionOverlap(a, b) ==
    IF a.orientation = "vertical"
    THEN (IF a.p1.y <= a.p2.y THEN (IF b.p1.y <= b.p2.y THEN Min(a.p2.y, b.p2.y) - Max(a.p1.y, b.p1.y)
                                    ELSE Min(a.p2.y, b.p1.y) - Max(a.p1.y, b.p2.y))
          ELSE (IF b.p1.y <= b.p2.y THEN Min(a.p1.y, b.p2.y) - Max(a.p2.y, b.p1.y)
                ELSE Min(a.p1.y, b.p1.y) - Max(a.p2.y, b.p2.y)))
    ELSE (IF a.p1.x <= a.p2.x THEN (IF b.p1.x <= b.p2.x THEN Min(a.p2.x, b.p2.x) - Max(a.p1.x, b.p1.x)
                                    ELSE Min(a.p2.x, b.p1.x) - Max(a.p1.x, b.p2.x))
          ELSE (IF b.p1.x <= b.p2.x THEN Min(a.p1.x, b.p2.x) - Max(a.p2.x, b.p1.x)
                ELSE Min(a.p1.x, b.p1.x) - Max(a.p2.x, b.p2.x)))

\* C14: two segments of the same orientation whose projections on the axis
\* they run along abut or overlap by at most 2 units are reported as
\* colliding neither by checkSegmentCollision nor by detectCollisions.
C14_NoCollisionOnTouch ==
    (/\ pcSeg = "checked"
     /\ segA.orientation = segB.orientation
     /\ ProjectionOverlap(segA, segB) <= 2) =>
        /\ ~collidesAB
        /\ ~collidesBA
        /\ reported = {}

\* horizontal segments of two connectors at the same Y over [0,10] and
\* [10,20], tested with the default threshold and not reported
C14_Witness ==
    /\ pcSeg = "checked"
    /\ segThreshold = collisionThreshold
    /\ segA = [connectionId |-> 1, p1 |-> Pt(0, 0), p2 |-> Pt(10, 0), orientation |-> "horizontal"]
    /\ segB = [connectionId |-> 2, p1 |-> Pt(10, 0), p2 |-> Pt(20, 0), orientation |-> "horizontal"]
    /\ ~collidesAB
    /\ reported = {}

\* the orientation the claim gives a point pair
Classified(p1, p2) ==
    CASE (p1.x - p2.x < 2 /\ p2.x - p1.x < 2) -> "vertical"
      [] ~(p1.x - p2.x < 2 /\ p2.x - p1.x < 2) /\ (p1.y - p2.y < 2 /\ p2.y - p1.y < 2) -> "horizontal"
      [] ~(p1.x - p2.x < 2 /\ p2.x - p1.x < 2) /\ ~(p1.y - p2.y < 2 /\ p2.y - p1.y < 2) -> "diagonal"

\* C15: a point pair is vertical when |dx| < 2, otherwise horizontal when
\* |dy| < 2, otherwise diagonal; a pair within 2 units on both axes is
\* vertical.
C15_Orientation ==
    /\ segA.orientation = Classified(segA.p1, segA.p2)
    /\ segB.orientation = Classified(segB.p1, segB.p2)
    /\ getOrientation(Pt(0, 0), Pt(0, 5)) = "vertical"
    /\ getOrientation(Pt(0, 0), Pt(5, 0)) = "horizontal"
    /\ getOrientation(Pt(0, 0), Pt(5, 5)) = "diagonal"
    /\ getOrientation(Pt(0, 0), Pt(1, 1)) = "vertical"

\* the pair (0,0),(1,1), within 2 units on both axes, classified vertical,
\* beside a horizontal and a diagonal pair
C15_Witness ==
    /\ pcSeg = "checked"
    /\ segA.p1 = Pt(0, 0)
    /\ segA.p2 = Pt(1, 1)
    /\ segA.orientation = "vertical"
    /\ segB.p1 = Pt(0, 0)
    /\ segB.orientation \in {"horizontal", "diagonal"}

----------------------------------------------------------------------------
(* The diagrams the resolver is run on *)

NumConns == 3            \* sequence flows in the registry

Elements == {1, 2, 3}
EndpointPairs == {<<1, 2>>, <<2, 1>>, <<1, 3>>}

RouteZ == << Pt(0, 0), Pt(40, 0), Pt(40, 60), Pt(80, 60) >>
RouteNearZ == << Pt(0, 3), Pt(40, 3), Pt(40, 63), Pt(80, 63) >>
RouteFar == << Pt(0, 100), Pt(20, 100), Pt(20, 160), Pt(60, 160), Pt(80, 160) >>
Routes == {RouteZ, RouteNearZ, RouteFar}

\* every registry of k flows: ids 1..k in any registry order
ConnInputs(k) ==
    {[i \in 1 .. k |->
        [id |-> ids[i], source |-> ep[i][1], target |-> ep[i][2], waypoints |-> wp[i]]] :
        ids \in Permutations(1 .. k),
        ep \in [1 .. k -> EndpointPairs],
        wp \in [1 .. k -> Routes]}

NoResult == [waypoints |-> <<>>, updated |-> FALSE]

DriftIdle ==
    /\ driftTarget = 0
    /\ fanned = NoResult
    /\ resolved = NoResult
    /\ nudgeSteps = <<>>
    /\ pcDrift = "input"

ResolveIdle ==
    /\ before = <<>>
    /\ updates = 0
    /\ passes = 0
    /\ runs = 0
    /\ resolveLog = <<>>

\* what autoLayout has computed and issued before it has done anything
NothingDone ==
    /\ laneData = <<>>
    /\ maxGlobalRank = 0
    /\ rootId = 0
    /\ rankWidths = <<>>
    /\ laneResizes = <<>>
    /\ nodePositions = <<>>
    /\ commands = <<>>

LayoutIdle ==
    /\ lanes = <<>>
    /\ nodes = <<>>
    /\ NothingDone
    /\ registry = <<>>
    /\ pcLayout = "input"

\* no detectCollisions call has returned yet
NoReport == {<<0, 0>>}

HostIdle ==
    /\ timeout = -1
    /\ isAdjusting = FALSE
    /\ resetTimer = -1
    /\ selfArmed = FALSE
    /\ selfRuns = 0
    /\ edits = 0
    /\ sinceEvent = 0
    /\ burstLen = 0
    /\ runsSinceEvent = 0
    /\ startedAt = -1
    /\ conflicts = NoReport

CollisionIdle ==
    /\ connections = <<>>
    /\ DriftIdle
    /\ ResolveIdle
    /\ HostIdle
    /\ SegIdle

DriftFrame == UNCHANGED <<rankVars, routeVars, resolveVars, hostVars, layoutVars, segVars>>

\* computeResolvedWaypoints(connections[k], the others) runs its fan-out block
ComputeFanOut(k) ==
    /\ pcDrift = "input"
    /\ driftTarget' = k
    /\ fanned' = IF Len(connections[k].waypoints) < 2
                 THEN [waypoints |-> connections[k].waypoints, updated |-> FALSE]
                 ELSE FanOutBlock(connections[k], OthersOf(connections, connections[k].id))
    /\ pcDrift' = "fanned"
    /\ UNCHANGED <<connections, resolved, nudgeSteps>>
    /\ DriftFrame

\* the call returns what its nudge loop left in st
NudgesReturn(st) ==
    /\ resolved' = Returned(st)
    /\ nudgeSteps' = st.steps

\* ... then its nudge loop, and returns
ComputeNudges ==
    /\ pcDrift = "fanned"
    /\ NudgesReturn(ResolvedWithSteps(
                        connections[driftTarget],
                        OthersOf(connections, connections[driftTarget].id)))
    /\ pcDrift' = "returned"
    /\ UNCHANGED <<connections, driftTarget, fanned>>
    /\ DriftFrame

DriftNext ==
    \/ \E k \in 1 .. NumConns : ComputeFanOut(k)
    \/ ComputeNudges



----------------------------------------------------------------------------
(* Properties of the parallel fan-out *)

\* registry positions of the connectors that share the unordered
\* (source, target) pair of the connector at position t, t itself excluded
ParallelPeers(t) ==
    {k \in DOMAIN connections :
        /\ k # t
        /\ {connections[k].source, connections[k].target}
             = {connections[t].source, connections[t].target}}

\* zero-based position of t among itself and its peers in ascending id order
IdPosition(t) ==
    Cardinality({k \in ParallelPeers(t) : connections[k].id < connections[t].id})

\* twice (index - (n-1)/2) x parallelOffset
TwiceFanOffset(t) ==
    (2 * IdPosition(t) - Cardinality(ParallelPeers(t))) * parallelOffset

\* C8: a connector with n-1 >= 1 parallel peers gets the offset
\* (index - (n-1)/2) x parallelOffset, index its position in id order; when
\* |offset| > 1 the fan-out adds it to the Y of the waypoints from index 2 to
\* the second-to-last and changes nothing else; otherwise it changes nothing.
C8_FanOut ==
    (pcDrift \in {"fanned", "returned"} /\ ParallelPeers(driftTarget) # {}) =>
        LET orig == connections[driftTarget].waypoints
            out == fanned.waypoints
            twice == TwiceFanOffset(driftTarget)
        IN  /\ Len(out) = Len(orig)
            /\ fanned.updated = (Abs(twice) > 2)
            /\ \A i \in 1 .. Len(orig) :
                  /\ out[i].x = orig[i].x
                  /\ 2 * out[i].y =
                        2 * orig[i].y +
                          (IF Abs(twice) > 2 /\ i >= 3 /\ i <= Len(orig) - 1
                           THEN twice ELSE 0)

\* three parallel connectors, the target the first in id order but not in
\* registry order, with two middle waypoints moved by -18
C8_Witness ==
    /\ pcDrift = "fanned"
    /\ Cardinality(ParallelPeers(driftTarget)) = 2
    /\ IdPosition(driftTarget) = 0
    /\ driftTarget # 1
    /\ Len(fanned.waypoints) = 5
    /\ fanned.waypoints[3].y = connections[driftTarget].waypoints[3].y - 18
    /\ fanned.waypoints[4].y = connections[driftTarget].waypoints[4].y - 18
    /\ fanned.waypoints[5] = connections[driftTarget].waypoints[5]

----------------------------------------------------------------------------
(* Properties of the pairwise nudge *)

SegmentAt(wps, i) == Segment("", wps[i], wps[i + 1])

\* the pairs (i, j) of a segment of wps and a segment of ows that collide
CollidingAt(wps, ows) ==
    {ij \in (1 .. (Len(wps) - 1)) \X (1 .. (Len(ows) - 1)) :
        checkSegmentCollision(SegmentAt(wps, ij[1]), SegmentAt(ows, ij[2]),
                              collisionThreshold)}

\* the first pair when this connector's segments are scanned in order and,
\* for each, the other's
FirstPair(H) ==
    CHOOSE h \in H : \A g \in H : h[1] < g[1] \/ (h[1] = g[1] /\ h[2] <= g[2])

\* this segment's midpoint is not below the other's on the perpendicular axis
\* (both midpoints doubled)
MidpointNotBelow(a, b) ==
    IF a.orientation = "horizontal"
    THEN a.p1.y + a.p2.y >= b.p1.y + b.p2.y
    ELSE a.p1.x + a.p2.x >= b.p1.x + b.p2.x

\* waypoint i of wps once segment a, its h-th, is pushed off segment b
PushedPoint(wps, i, h, a, b) ==
    IF i # h /\ i # h + 1 THEN wps[i]
    ELSE IF a.orientation = "horizontal"
    THEN Pt(wps[i].x,
            wps[i].y + (IF MidpointNotBelow(a, b) THEN parallelOffset ELSE -parallelOffset))
    ELSE Pt(wps[i].x + (IF MidpointNotBelow(a, b) THEN parallelOffset ELSE -parallelOffset),
            wps[i].y)

\* what the claim lets one iteration turn the waypoints wps into, H the
\* colliding pairs with the other's waypoints ows
PushedOff(wps, ows, H) ==
    IF H = {} THEN wps
    ELSE [i \in 1 .. Len(wps) |->
            PushedPoint(wps, i, FirstPair(H)[1],
                        SegmentAt(wps, FirstPair(H)[1]), SegmentAt(ows, FirstPair(H)[2]))]

WaypointsOf(id) ==
    connections[CHOOSE k \in DOMAIN connections : connections[k].id = id].waypoints

IdsOf(S) == {connections[k].id : k \in S}

----------------------------------------------------------------------------
(* The resolver loop (BpmnLayoutService.resolveEdgeCollisions) *)

maxPasses == 5
MaxRuns == 2             \* calls of the resolver explored in one behaviour

WriteBackBug(k, st, result) ==
    [conns |-> st.conns,
     updates |-> IF result.updated THEN st.updates + 1 ELSE st.updates,
     anyUpdated |-> st.anyUpdated \/ result.updated,
     pass |-> st.pass,
     log |-> Append(st.log, [pass |-> st.pass, k |-> k, seen |-> st.conns,
                             result |-> result])]

\* "if (result.updated) { updateWaypoints(conn, result.waypoints); ... }": the
\* update is written back to the registry at once; st = [conns, updates,
\* anyUpdated, pass, log]
WriteBack(k, st, result) ==
    [conns |-> IF result.updated
               THEN [st.conns EXCEPT ![k].waypoints = result.waypoints]
               ELSE st.conns,
     updates |-> IF result.updated THEN st.updates + 1 ELSE st.updates,
     anyUpdated |-> st.anyUpdated \/ result.updated,
     pass |-> st.pass,
     log |-> Append(st.log, [pass |-> st.pass, k |-> k, seen |-> st.conns,
                             result |-> result])]

\* the inner loop "for (const conn of connections)" from registry position k
RECURSIVE ResolvePass(_, _)
ResolvePass(k, st) ==
    IF k > Len(st.conns) THEN st
    ELSE ResolvePass(k + 1,
            WriteBack(k, st,
                computeResolvedWaypoints(
                    st.conns[k], OthersOf(st.conns, st.conns[k].id))))

PassResult(pass, r) ==
    [conns |-> r.conns, updates |-> r.updates, passes |-> pass + 1, log |-> r.log]

\* the outer loop "for (pass = 0; pass < maxPasses; pass++)"; "if (!anyUpdated)
\* break" ends it after the pass whose inner loop returned r
RECURSIVE ResolvePasses(_, _, _)
EndOfPassBug(pass, limit, r) ==
    ResolvePasses(pass + 1, limit, PassResult(pass, r))

EndOfPass(pass, limit, r) ==
    IF ~r.anyUpdated THEN PassResult(pass, r)
    ELSE ResolvePasses(pass + 1, limit, PassResult(pass, r))

ResolvePasses(pass, limit, st) ==
    IF pass >= limit THEN st
    ELSE EndOfPass(pass, limit,
            ResolvePass(1, [conns |-> st.conns, updates |-> st.updates,
                            anyUpdated |-> FALSE, pass |-> pass, log |-> st.log]))

resolveEdgeCollisions(conns, limit) ==
    IF Len(conns) = 0 THEN [conns |-> conns, updates |-> 0, passes |-> 0, log |-> <<>>]
    ELSE ResolvePasses(0, limit,
            [conns |-> conns, updates |-> 0, passes |-> 0, log |-> <<>>])

\* BpmnLayoutService.detectCollisions on a registry
AllSegments(conns) ==
    IF conns = <<>> THEN <<>>
    ELSE LET RECURSIVE Collect(_)
             Collect(k) ==
                 IF k = 0 THEN <<>>
                 ELSE Collect(k - 1) \o extractSegments(conns[k].id, conns[k].waypoints)
         IN  Collect(Len(conns))

ServiceDetectCollisions(conns) == detectCollisions(AllSegments(conns), collisionThreshold)

ResolveFrame == UNCHANGED <<rankVars, routeVars, driftVars, hostVars, layoutVars, segVars>>

\* the registry and the counters after a call that returned r
ResolverReturns(r) ==
    /\ connections' = r.conns
    /\ updates' = r.updates
    /\ passes' = r.passes
    /\ resolveLog' = r.log
    /\ before' = connections
    /\ runs' = runs + 1

\* one call resolveEdgeCollisions(context) with the default maxPasses
ResolveEdgeCollisions ==
    /\ runs < MaxRuns
    /\ ResolverReturns(resolveEdgeCollisions(connections, maxPasses))
    /\ ResolveFrame

ResolveNext == ResolveEdgeCollisions

----------------------------------------------------------------------------
(* Properties of the resolver loop *)

\* C3: a call that finds the waypoints conflict-free (detectCollisions
\* reports nothing) issues no updateWaypoints and leaves all waypoints as
\* they were, parallel connectors included.
C3_IdempotentOnConflictFree ==
    (runs > 0 /\ ServiceDetectCollisions(before) = {}) =>
        /\ updates = 0
        /\ connections = before

\* C5: after a call of the resolver no two segments of different sequence
\* flows collide, whatever the waypoints were.
C5_NoConflictAfterResolve ==
    runs > 0 => ServiceDetectCollisions(connections) = {}

\* C7: a call of the resolver leaves the first two waypoints of every
\* connector where they were.
C7_FirstSegmentFixed ==
    runs > 0 =>
        \A k \in DOMAIN connections :
            /\ connections[k].waypoints[1] = before[k].waypoints[1]
            /\ connections[k].waypoints[2] = before[k].waypoints[2]

\* the updateWaypoints commands the last call issued in pass p (0-based)
UpdatesInPass(p) ==
    Cardinality({j \in DOMAIN resolveLog :
                    resolveLog[j].pass = p /\ resolveLog[j].result.updated})

\* C21: a call of resolveEdgeCollisions performs at most maxPasses passes over
\* the connectors, one computeResolvedWaypoints call per connector and pass,
\* hence at most maxPasses x (number of connectors) updateWaypoints commands;
\* every pass but the last one updated a connector, and the last one either
\* updated none or was pass number maxPasses.
C21_PassesBounded ==
    runs > 0 =>
        /\ passes \in 1 .. maxPasses
        /\ Len(resolveLog) = passes * Len(connections)
        /\ updates <= maxPasses * Len(connections)
        /\ updates = Cardinality({j \in DOMAIN resolveLog : resolveLog[j].result.updated})
        /\ \A p \in 0 .. passes - 2 : UpdatesInPass(p) > 0
        /\ passes < maxPasses => UpdatesInPass(passes - 1) = 0

\* a call stopped by the cap although its last pass still updated a
\* connector and conflicts remain
C21_Witness ==
    /\ runs > 0
    /\ passes = maxPasses
    /\ UpdatesInPass(maxPasses - 1) > 0
    /\ ServiceDetectCollisions(connections) # {}

\* a call that stopped before the cap, after passes that updated connectors
\* and one that updated none
C21_EarlyStop ==
    /\ runs > 0
    /\ passes > 1
    /\ passes < maxPasses
    /\ UpdatesInPass(0) > 0
    /\ UpdatesInPass(passes - 1) = 0

\* the registry once the updateWaypoints of the logged call e, if it issued
\* one, is executed
AfterCall(e) ==
    IF e.result.updated
    THEN [e.seen EXCEPT ![e.k].waypoints = e.result.waypoints]
    ELSE e.seen

\* C25: the calls of computeResolvedWaypoints go through the connectors in
\* registry order, pass after pass; the first reads the registry as the
\* resolver found it, and every later one, in the same pass or a later one,
\* reads the registry with the updateWaypoints of all calls before it
\* executed, and computes its parallel group and collision checks on that;
\* one updateWaypoints is issued per changed connector.
C25_ReadYourWrites ==
    runs > 0 =>
        /\ \A j \in DOMAIN resolveLog :
              /\ resolveLog[j].k = ((j - 1) % Len(before)) + 1
              /\ resolveLog[j].pass = (j - 1) \div Len(before)
              /\ resolveLog[j].seen =
                    IF j = 1 THEN before ELSE AfterCall(resolveLog[j - 1])
              /\ resolveLog[j].result =
                    computeResolvedWaypoints(
                        resolveLog[j].seen[resolveLog[j].k],
                        OthersOf(resolveLog[j].seen,
                                 resolveLog[j].seen[resolveLog[j].k].id))
        /\ resolveLog # <<>> => connections = AfterCall(resolveLog[Len(resolveLog)])
        /\ updates = Cardinality({j \in DOMAIN resolveLog : resolveLog[j].result.updated})

\* the first connector of the first pass was updated, and the second one got
\* another result on the updated registry than it would have got on the
\* registry the resolver found
C25_Witness ==
    /\ runs > 0
    /\ Len(resolveLog) >= 2
    /\ resolveLog[1].result.updated
    /\ resolveLog[2].seen # before
    /\ resolveLog[2].result
          # computeResolvedWaypoints(before[2], OthersOf(before, before[2].id))

\* the waypoints the fan-out moves: zero-based 2 to the second-to-last
MiddleWaypoints(wps) == 3 .. (Len(wps) - 1)

\* C26: a connector all of whose fellow connectors are parallel to it, so
\* that no pairwise nudge can touch it, has after a call of the resolver the
\* Y of its middle waypoints moved by (index - (n-1)/2) x parallelOffset from
\* where the call found them, whatever the number of passes; members of the
\* group that are adjacent in id order and started on the same waypoints end
\* parallelOffset apart.
C26_FanOutOnce ==
    runs > 0 =>
        \A t \in DOMAIN connections :
            (ParallelPeers(t) # {} /\ ParallelPeers(t) = DOMAIN connections \ {t}) =>
                /\ \A i \in MiddleWaypoints(before[t].waypoints) :
                      2 * (connections[t].waypoints[i].y - before[t].waypoints[i].y)
                        = TwiceFanOffset(t)
                /\ \A u \in ParallelPeers(t) :
                      (/\ IdPosition(u) = IdPosition(t) + 1
                       /\ before[u].waypoints = before[t].waypoints) =>
                          \A i \in MiddleWaypoints(before[t].waypoints) :
                              connections[u].waypoints[i].y
                                = connections[t].waypoints[i].y + parallelOffset

----------------------------------------------------------------------------
(* The debounced trigger of the resolver (initLineDrift).  The host raises  *)
(* connection.changed / elements.changed synchronously for every            *)
(* modeling.updateWaypoints, also for those the resolver issues.            *)

debounceDelay == 300
resetDelay == 100
MaxEdits == 2            \* user edits explored in one behaviour
TimeSteps == {100}       \* time passes in steps of this many ms

HostFrame == UNCHANGED <<rankVars, routeVars, driftVars, layoutVars, segVars>>

debouncedCheckBug(pending) == IF pending >= 0 THEN pending ELSE debounceDelay

\* debouncedCheck: clearTimeout(timeout); timeout = setTimeout(..., 300).  The
\* value is the time left on the timer that replaces the pending one
debouncedCheck(pending) == debounceDelay

\* the user drags connector k onto a route; the host raises
\* bendpoint.move.end / connection.changed and debouncedCheck re-arms the timer
UserEdit(k, route) ==
    /\ edits < MaxEdits
    /\ connections' = [connections EXCEPT ![k].waypoints = route]
    /\ timeout' = debouncedCheck(timeout)
    /\ selfArmed' = FALSE
    /\ edits' = edits + 1
    /\ sinceEvent' = 0
    /\ burstLen' = IF timeout > 0 THEN burstLen + 1 ELSE 1
    /\ runsSinceEvent' = 0
    /\ UNCHANGED <<isAdjusting, resetTimer, selfRuns, startedAt, conflicts, resolveVars>>
    /\ HostFrame

\* time passes while no timer is due
Advance(d) ==
    /\ timeout > 0 \/ resetTimer > 0
    /\ timeout = -1 \/ timeout >= d
    /\ resetTimer = -1 \/ resetTimer >= d
    /\ timeout' = IF timeout = -1 THEN -1 ELSE timeout - d
    /\ resetTimer' = IF resetTimer = -1 THEN -1 ELSE resetTimer - d
    /\ sinceEvent' = IF timeout = -1 THEN sinceEvent ELSE sinceEvent + d
    /\ UNCHANGED <<connections, isAdjusting, selfArmed, selfRuns, edits, resolveVars>>
    /\ UNCHANGED <<burstLen, runsSinceEvent, startedAt, conflicts>>
    /\ HostFrame

\* setTimeout(() => { isAdjusting = false; }, 100) fires
ResetFlag ==
    /\ resetTimer = 0
    /\ isAdjusting' = FALSE
    /\ resetTimer' = -1
    /\ UNCHANGED <<connections, timeout, selfArmed, selfRuns, edits, resolveVars>>
    /\ UNCHANGED <<sinceEvent, burstLen, runsSinceEvent, startedAt, conflicts>>
    /\ HostFrame

\* every updateWaypoints of the run raises connection.changed / elements.changed
\* and with it debouncedCheck; the timer that started the run has fired
Notified(r) ==
    /\ timeout' = IF r.updates > 0 THEN debouncedCheck(-1) ELSE -1
    /\ selfArmed' = (r.updates > 0)
    /\ isAdjusting' = IF r.updates > 0 THEN TRUE ELSE isAdjusting
    /\ resetTimer' = IF r.updates > 0 THEN resetDelay ELSE resetTimer
    /\ sinceEvent' = IF r.updates > 0 THEN 0 ELSE sinceEvent
    /\ burstLen' = IF r.updates > 0 THEN 1 ELSE burstLen
    /\ runsSinceEvent' = IF r.updates > 0 THEN 0 ELSE 1

CheckReturns(r) ==
    /\ ResolverReturns(r)
    /\ Notified(r)

\* the debounce timer fires: resolveEdgeCollisions runs to completion; every
\* updateWaypoints it issues sets the flag, schedules its reset and, through
\* the host's change notification, calls debouncedCheck again
DebouncedCheck ==
    /\ timeout = 0
    /\ resetTimer # 0
    /\ runs < MaxRuns
    /\ CheckReturns(resolveEdgeCollisions(connections, maxPasses))
    /\ selfRuns' = IF selfArmed THEN selfRuns + 1 ELSE selfRuns
    /\ startedAt' = sinceEvent
    /\ UNCHANGED <<edits, conflicts>>
    /\ HostFrame

\* the "detect collisions" button: BpmnLayoutService.detectCollisions(context)
DetectCollisions ==
    /\ conflicts' = ServiceDetectCollisions(connections)
    /\ UNCHANGED <<connections, resolveVars>>
    /\ UNCHANGED <<timeout, isAdjusting, resetTimer, selfArmed, selfRuns, edits>>
    /\ UNCHANGED <<sinceEvent, burstLen, runsSinceEvent, startedAt>>
    /\ HostFrame

HostNext ==
    \/ \E k \in 1 .. (NumConns - 1), route \in Routes : UserEdit(k, route)
    \/ \E d \in TimeSteps : Advance(d)
    \/ ResetFlag
    \/ DebouncedCheck
    \/ DetectCollisions

\* the colliding pairs of segments of two different connectors, taken straight
\* from the registry: <<k1, i1, k2, i2>> is segment i1 of connections[k1]
\* against segment i2 of connections[k2]
CollidingPairs(conns) ==
    {q \in (DOMAIN conns) \X (1 .. 4) \X (DOMAIN conns) \X (1 .. 4) :
        /\ q[1] < q[3]
        /\ q[2] < Len(conns[q[1]].waypoints)
        /\ q[4] < Len(conns[q[3]].waypoints)
        /\ checkSegmentCollision(
              Segment(q[1], conns[q[1]].waypoints[q[2]], conns[q[1]].waypoints[q[2] + 1]),
              Segment(q[3], conns[q[3]].waypoints[q[4]], conns[q[3]].waypoints[q[4] + 1]),
              collisionThreshold)}

\* C16: detectCollisions is read-only: a call changes no waypoint, issues no
\* command and raises no change event; it only returns the conflict list,
\* one conflict per colliding pair of segments of different connectors.
C16_DetectReadOnly ==
    [][conflicts' # conflicts =>
          /\ connections' = connections
          /\ updates' = updates
          /\ runs' = runs
          /\ timeout' = timeout
          /\ Cardinality(conflicts') = Cardinality(CollidingPairs(connections))]_vars

\* a call made after a resolver run that moved connectors, reporting conflicts
C16_Witness ==
    /\ runs > 0
    /\ updates > 0
    /\ conflicts # NoReport
    /\ conflicts # {}
    /\ Cardinality(conflicts) = Cardinality(CollidingPairs(connections))

\* C18: the resolver starts only when 300 ms have passed since the last
\* change event; while a timer is pending it is due exactly 300 ms after the
\* last event and no run has started since that event; once the timer of a
\* burst has fired exactly one run has started.
C18_Debounce ==
    /\ startedAt \in {-1, debounceDelay}
    /\ timeout >= 0 => (runsSinceEvent = 0 /\ timeout = debounceDelay - sinceEvent)
    /\ (timeout = -1 /\ edits > 0) => runsSinceEvent = 1

\* two user edits less than 300 ms apart, then one run 300 ms after the
\* second
C18_Witness ==
    /\ edits = 2
    /\ burstLen = 2
    /\ runs = 1
    /\ runsSinceEvent = 1
    /\ startedAt = debounceDelay
    /\ timeout = -1

\* C4: a change notification raised by the resolver's own updateWaypoints
\* never leads to another run of the resolver.
C4_NoSelfTrigger == selfRuns = 0

----------------------------------------------------------------------------
(* Lane geometry (layout.geometry) *)

colSpacing == 80
rowSpacing == 30
lanePadding == 80
startXOffset == 150
minColumnWidth == 100

NumLanes == 2            \* lanes of the layout pass, ids 1..NumLanes
NumLayoutNodes == 3      \* ranked nodes of the layout pass

LaneIds == 1 .. NumLanes
AbsentLane == NumLanes + 1        \* a parent that is no lane of this pass
LaneHeights == {100, 400}
NodeKinds == {<<160, 80>>, <<36, 36>>}      \* <<width, height>> of a shape

\* the lanes lie one below the other, in registry order or against it
LaneY(pos) == 80 + 120 * (pos - 1)
LaneOrders == {"down", "up"}

LaneInputs ==
    {[l \in LaneIds |->
        [id |-> l, x |-> 30, width |-> 600, height |-> h[l],
         y |-> IF o = "down" THEN LaneY(l) ELSE LaneY(NumLanes + 1 - l)]] :
        h \in [LaneIds -> LaneHeights], o \in LaneOrders}

\* canvas.getRootElement().id: lane 1, or an element that is no lane
RootIds == {0, 1}

\* Rank vectors as assignRanks leaves them: every rank from 0 to the greatest
\* is taken.  Nodes are numbered so that ranks do not decrease; any other
\* numbering only permutes nodes of different ranks, which no step compares.
RankVectors ==
    {rk \in [1 .. NumLayoutNodes -> 0 .. (NumLayoutNodes - 1)] :
        /\ rk[1] = 0
        /\ \A i \in 2 .. NumLayoutNodes : rk[i] = rk[i - 1] \/ rk[i] = rk[i - 1] + 1}

\* the sequence flows that give the ranks: every node of rank r > 0 is the
\* target of one flow, leaving the last node of rank r - 1 before it
FlowsFrom(rk, i) ==
    LET IsTarget(j) == /\ j > i
                       /\ rk[j] = rk[i] + 1
                       /\ \A m \in (i + 1) .. (j - 1) : rk[m] # rk[i]
    IN  SelectSeq([j \in DOMAIN rk |-> j], IsTarget)

\* shapes are created 120 apart on one line
ShapeX(i) == 200 + (i - 1) * 120
ShapeY(i) == 140

NodeInputs ==
    {[i \in 1 .. NumLayoutNodes |->
        [id |-> i, laneId |-> ln[i], rank |-> rk[i],
         width |-> kd[i][1], height |-> kd[i][2],
         x |-> ShapeX(i), y |-> ShapeY(i), outgoing |-> FlowsFrom(rk, i)]] :
        ln \in [1 .. NumLayoutNodes -> LaneIds \cup {AbsentLane}],
        rk \in RankVectors,
        kd \in [1 .. NumLayoutNodes -> NodeKinds]}

\* maxGlobalRank of buildLaneData: over all nodes, placed or not
RECURSIVE MaxRankOf(_)
MaxRankOf(ns) ==
    IF ns = <<>> THEN 0 ELSE Max(Head(ns).rank, MaxRankOf(Tail(ns)))

\* absent-lane nodes land in the first lane
buildLaneDataBug(laneList, nodeList) ==
    [l \in 1 .. Len(laneList) |->
        [id |-> laneList[l].id,
         y |-> laneList[l].y,
         height |-> laneList[l].height,
         nodesByRank |->
            [r \in 0 .. MaxRankOf(nodeList) |->
                LET InBucket(n) ==
                        /\ n.rank = r
                        /\ \/ n.laneId = laneList[l].id
                           \/ l = 1 /\ \A k \in DOMAIN laneList : laneList[k].id # n.laneId
                IN  SelectSeq(nodeList, InBucket)]]]

\* buildLaneData: one LaneMeta per lane; nodesByRank[r] lists, in nodeMap
\* order, the nodes of rank r whose laneId is this lane (an absent key of the
\* map is the empty list here)
buildLaneData(laneList, nodeList) ==
    [l \in 1 .. Len(laneList) |->
        [id |-> laneList[l].id,
         y |-> laneList[l].y,
         height |-> laneList[l].height,
         nodesByRank |->
            [r \in 0 .. MaxRankOf(nodeList) |->
                LET InBucket(n) == n.laneId = laneList[l].id /\ n.rank = r
                IN  SelectSeq(nodeList, InBucket)]]]

RECURSIVE SumHeights(_)
SumHeights(ns) == IF ns = <<>> THEN 0 ELSE Head(ns).height + SumHeights(Tail(ns))

\* nodes.reduce(sum + n.height, 0) + (nodes.length - 1) * rowSpacing
StackHeight(ns) == SumHeights(ns) + (Len(ns) - 1) * rowSpacing

\* the loop "for (r = 0; r <= maxGlobalRank; r++)" from rank r on
RECURSIVE MaxStackHeight(_, _, _, _)
MaxStackHeight(meta, r, last, maxStackHeight) ==
    IF r > last THEN maxStackHeight
    ELSE MaxStackHeight(meta, r + 1, last,
            IF StackHeight(meta.nodesByRank[r]) > maxStackHeight
            THEN StackHeight(meta.nodesByRank[r]) ELSE maxStackHeight)

LastRankBug(maxRank) == maxRank - 1
\* the last rank the loops over ranks visit
LastRank(maxRank) == maxRank

\* computeLaneHeights: elementHeight is meta.element.height
computeLaneHeights(data, laneList, maxRank) ==
    [l \in 1 .. Len(data) |->
        LET requiredHeight ==
                MaxStackHeight(data[l], 0, LastRank(maxRank), 0) + lanePadding * 2
        IN  [data[l] EXCEPT !.height = Max(laneList[l].height, requiredHeight)]]

WidestInBug(ns, maxWidth) == maxWidth

\* "for (const n of nodes) if (n.width > maxWidth) maxWidth = n.width"
RECURSIVE WidestIn(_, _)
WidestIn(ns, maxWidth) ==
    IF ns = <<>> THEN maxWidth
    ELSE WidestIn(Tail(ns), IF Head(ns).width > maxWidth THEN Head(ns).width ELSE maxWidth)

\* laneData.forEach over the lanes from position l on, for rank r
RECURSIVE WidestOfLanes(_, _, _, _)
WidestOfLanes(data, l, r, maxWidth) ==
    IF l > Len(data) THEN maxWidth
    ELSE WidestOfLanes(data, l + 1, r, WidestIn(data[l].nodesByRank[r], maxWidth))

computeRankWidths(data, maxRank) ==
    [r \in 0 .. maxRank |-> WidestOfLanes(data, 1, r, minColumnWidth)]

\* Array.sort by element.y; the sort is stable
RECURSIVE InsertByY(_, _)
InsertByY(sorted, m) ==
    IF sorted = <<>> THEN <<m>>
    ELSE IF m.elementY < Head(sorted).elementY THEN <<m>> \o sorted
    ELSE <<Head(sorted)>> \o InsertByY(Tail(sorted), m)

RECURSIVE SortByY(_)
SortByY(ms) ==
    IF ms = <<>> THEN <<>>
    ELSE InsertByY(SortByY(SubSeq(ms, 1, Len(ms) - 1)), ms[Len(ms)])

\* laneData.values() with the element's y beside each meta
LaneList(data, laneList) ==
    [l \in 1 .. Len(data) |->
        [id |-> data[l].id, height |-> data[l].height, elementY |-> laneList[l].y]]

IsRootBug(laneId, root) == FALSE
\* meta.element.id === rootElementId
IsRoot(laneId, root) == laneId = root

RECURSIVE StackLanesBug(_, _, _)
StackLanesBug(rest, currentLaneY, root) ==
    IF rest = <<>> THEN <<>>
    ELSE << [laneId |-> Head(rest).id,
             y |-> IF IsRoot(Head(rest).id, root) THEN 0 ELSE currentLaneY,
             height |-> Head(rest).height,
             isRoot |-> IsRoot(Head(rest).id, root)] >>
         \o StackLanesBug(Tail(rest), currentLaneY + Head(rest).height, root)

\* the loop "for (const meta of laneList)" over the rest of the sorted list
RECURSIVE StackLanes(_, _, _)
StackLanes(rest, currentLaneY, root) ==
    IF rest = <<>> THEN <<>>
    ELSE IF ~IsRoot(Head(rest).id, root)
    THEN << [laneId |-> Head(rest).id, y |-> currentLaneY,
             height |-> Head(rest).height, isRoot |-> FALSE] >>
         \o StackLanes(Tail(rest), currentLaneY + Head(rest).height, root)
    ELSE << [laneId |-> Head(rest).id, y |-> 0,
             height |-> Head(rest).height, isRoot |-> TRUE] >>
         \o StackLanes(Tail(rest), currentLaneY, root)

LaneResizesBug(data, laneList, root) ==
    LET sorted == SortByY(LaneList(data, laneList))
    IN  IF sorted = <<>> THEN <<>>
        ELSE StackLanes(sorted, sorted[1].elementY + sorted[1].height, root)

\* computeLayout's laneResizes: currentLaneY starts at the first lane's y
LaneResizes(data, laneList, root) ==
    LET sorted == SortByY(LaneList(data, laneList))
    IN  IF sorted = <<>> THEN <<>>
        ELSE StackLanes(sorted, sorted[1].elementY, root)

\* laneData.get(laneId): the position of the lane in the map, 0 when absent
LaneIndex(data, laneId) ==
    IF \E l \in DOMAIN data : data[l].id = laneId
    THEN CHOOSE l \in DOMAIN data : data[l].id = laneId
    ELSE 0

\* meta.y as the lane loop left it
MetaY(resizes, laneId) ==
    resizes[CHOOSE k \in DOMAIN resizes : resizes[k].laneId = laneId].y

NewXBug(startX, r, widths) == startX

\* newX = startX; for (i = 0; i < node.rank; i++) newX += (rankWidths.get(i) ?? 100) + colSpacing
RECURSIVE NewX(_, _, _)
NewX(startX, r, widths) ==
    IF r = 0 THEN startX
    ELSE NewX(startX, r - 1, widths)
           + (IF (r - 1) \in DOMAIN widths THEN widths[r - 1] ELSE 100) + colSpacing

\* siblings.indexOf(node), zero-based
IndexOfNode(siblings, id) == (CHOOSE k \in DOMAIN siblings : siblings[k].id = id) - 1

StackOffsetBug(siblings, index) == SumHeights(SubSeq(siblings, 1, index))

\* stackOffset: heights of the siblings before the node, each with rowSpacing
StackOffset(siblings, index) ==
    SumHeights(SubSeq(siblings, 1, index)) + index * rowSpacing

\* one entry of nodePositions.  laneCenterY - totalStackHeight / 2 is computed
\* as (2 * meta.y + meta.height - totalStackHeight) / 2, exact because the
\* heights of the inputs are even
NodePosition(node, data, laneList, resizes, widths, root) ==
    LET l == LaneIndex(data, node.laneId)
        meta == data[l]
        startX == IF IsRoot(meta.id, root) THEN startXOffset
                  ELSE laneList[l].x + lanePadding
        newX == NewX(startX, node.rank, widths)
        siblings == meta.nodesByRank[node.rank]
        index == IndexOfNode(siblings, node.id)
        totalStackHeight == SumHeights(siblings) + Max(0, Len(siblings) - 1) * rowSpacing
        startStackY == (2 * MetaY(resizes, meta.id) + meta.height - totalStackHeight) \div 2
        newY == startStackY + StackOffset(siblings, index)
    IN  [nodeId |-> node.id, x |-> newX, y |-> newY,
         dx |-> newX - node.x, dy |-> newY - node.y, laneId |-> node.laneId]

\* nodeMap.forEach from position i on; "if (!meta) return" skips the node
RECURSIVE NodePositions(_, _, _, _, _, _, _)
NodePositions(i, nodeList, data, laneList, resizes, widths, root) ==
    IF i > Len(nodeList) THEN <<>>
    ELSE (IF LaneIndex(data, nodeList[i].laneId) = 0 THEN <<>>
          ELSE << NodePosition(nodeList[i], data, laneList, resizes, widths, root) >>)
         \o NodePositions(i + 1, nodeList, data, laneList, resizes, widths, root)

\* the element of a lane or a shape, by id
ElementOf(list, id) == list[CHOOSE k \in DOMAIN list : list[k].id = id]

RECURSIVE ApplyResizesBug(_, _)
ApplyResizesBug(resizes, laneList) ==
    IF resizes = <<>> THEN <<>>
    ELSE (IF Head(resizes).isRoot THEN <<>>
          ELSE IF Head(resizes).y # ElementOf(laneList, Head(resizes).laneId).y
          THEN << [cmd |-> "moveElements", lane |-> Head(resizes).laneId,
                   dx |-> 0,
                   dy |-> Head(resizes).y - ElementOf(laneList, Head(resizes).laneId).y] >>
          ELSE IF Head(resizes).height # ElementOf(laneList, Head(resizes).laneId).height
          THEN << [cmd |-> "resizeShape", lane |-> Head(resizes).laneId,
                   x |-> ElementOf(laneList, Head(resizes).laneId).x,
                   y |-> Head(resizes).y,
                   width |-> ElementOf(laneList, Head(resizes).laneId).width,
                   height |-> Head(resizes).height] >>
          ELSE <<>>)
         \o ApplyResizesBug(Tail(resizes), laneList)

\* the loop "for (const resize of laneResizes)" of autoLayout
RECURSIVE ApplyResizes(_, _)
ApplyResizes(resizes, laneList) ==
    IF resizes = <<>> THEN <<>>
    ELSE (IF Head(resizes).isRoot THEN <<>>
          ELSE IF Head(resizes).height # ElementOf(laneList, Head(resizes).laneId).height
          THEN << [cmd |-> "resizeShape", lane |-> Head(resizes).laneId,
                   x |-> ElementOf(laneList, Head(resizes).laneId).x,
                   y |-> Head(resizes).y,
                   width |-> ElementOf(laneList, Head(resizes).laneId).width,
                   height |-> Head(resizes).height] >>
          ELSE IF Head(resizes).y # ElementOf(laneList, Head(resizes).laneId).y
          THEN << [cmd |-> "moveElements", lane |-> Head(resizes).laneId,
                   dx |-> 0,
                   dy |-> Head(resizes).y - ElementOf(laneList, Head(resizes).laneId).y] >>
          ELSE <<>>)
         \o ApplyResizes(Tail(resizes), laneList)

\* the loop "for (const pos of nodePositions)" of autoLayout
RECURSIVE ApplyMoves(_, _)
ApplyMoves(positions, data) ==
    IF positions = <<>> THEN <<>>
    ELSE (IF LaneIndex(data, Head(positions).laneId) = 0 THEN <<>>
          ELSE IF Abs(Head(positions).dx) > 1 \/ Abs(Head(positions).dy) > 1
          THEN << [cmd |-> "moveElements", shape |-> Head(positions).nodeId,
                   dx |-> Head(positions).dx, dy |-> Head(positions).dy,
                   parent |-> Head(positions).laneId] >>
          ELSE <<>>)
         \o ApplyMoves(Tail(positions), data)

\* where a shape is once the move commands are executed
ShapeAfter(node, moves) ==
    IF \E k \in DOMAIN moves : moves[k].shape = node.id
    THEN LET mv == moves[CHOOSE k \in DOMAIN moves : moves[k].shape = node.id]
         IN  [node EXCEPT !.x = @ + mv.dx, !.y = @ + mv.dy]
    ELSE node

RerouteOne(source, target) ==
    [cmd |-> "updateWaypoints", source |-> source.id, target |-> target.id,
     waypoints |-> computeManhattanWaypoints(
                     source.x, source.y, source.width, source.height,
                     target.x, target.y, target.width, target.height)]

\* the outgoing flows of one element, from flow k on
RECURSIVE RerouteFrom(_, _, _, _)
RerouteFrom(node, k, nodeList, moves) ==
    IF k > Len(node.outgoing) THEN <<>>
    ELSE << RerouteOne(ShapeAfter(node, moves),
                       ShapeAfter(ElementOf(nodeList, node.outgoing[k]), moves)) >>
         \o RerouteFrom(node, k + 1, nodeList, moves)

\* rerouteConnections: the flows in the order they enter the set
RECURSIVE rerouteConnections(_, _, _)
rerouteConnections(i, nodeList, moves) ==
    IF i > Len(nodeList) THEN <<>>
    ELSE RerouteFrom(nodeList[i], 1, nodeList, moves)
         \o rerouteConnections(i + 1, nodeList, moves)

\* the commands of autoLayout from its first resize to the last reroute
IssueCommands(resizes, positions, laneList, nodeList, data) ==
    ApplyResizes(resizes, laneList)
      \o ApplyMoves(positions, data)
      \o rerouteConnections(1, nodeList, ApplyMoves(positions, data))

LayoutFrame == UNCHANGED <<rankVars, routeVars, connections, driftVars, resolveVars, hostVars, segVars>>

BuildLaneData ==
    /\ pcLayout = "input"
    /\ laneData' = buildLaneData(lanes, nodes)
    /\ maxGlobalRank' = MaxRankOf(nodes)
    /\ pcLayout' = "built"
    /\ UNCHANGED <<lanes, nodes, registry>>
    /\ UNCHANGED <<rootId, rankWidths, laneResizes, nodePositions, commands>>
    /\ LayoutFrame

ComputeLaneHeights ==
    /\ pcLayout = "built"
    /\ laneData' = computeLaneHeights(laneData, lanes, maxGlobalRank)
    /\ pcLayout' = "heights"
    /\ UNCHANGED <<lanes, nodes, maxGlobalRank, registry>>
    /\ UNCHANGED <<rootId, rankWidths, laneResizes, nodePositions, commands>>
    /\ LayoutFrame

\* the rest of autoLayout: computeRankWidths, the root element read from the
\* canvas, computeLayout, the resize and move commands and rerouteConnections
FinishAutoLayout ==
    /\ pcLayout = "heights"
    /\ rankWidths' = computeRankWidths(laneData, maxGlobalRank)
    /\ rootId' \in RootIds
    /\ laneResizes' = LaneResizes(laneData, lanes, rootId')
    /\ nodePositions' = NodePositions(1, nodes, laneData, lanes, laneResizes', rankWidths', rootId')
    /\ commands' = IssueCommands(laneResizes', nodePositions', lanes, nodes, laneData)
    /\ pcLayout' = "done"
    /\ UNCHANGED <<lanes, nodes, laneData, maxGlobalRank, registry>>
    /\ LayoutFrame

LayoutNext ==
    \/ BuildLaneData
    \/ ComputeLaneHeights
    \/ FinishAutoLayout

----------------------------------------------------------------------------
(* Properties of the lane geometry *)

\* the nodes of lane id ln at rank r, straight from the node list
NodesAt(ln, r) == {i \in DOMAIN nodes : nodes[i].laneId = ln /\ nodes[i].rank = r}

RECURSIVE SetSumHeights(_)
SetSumHeights(S) ==
    IF S = {} THEN 0
    ELSE LET i == CHOOSE j \in S : TRUE
         IN  nodes[i].height + SetSumHeights(S \ {i})

\* C10: every computed lane height is at least the lane's original height
\* and, for every rank, at least the rank's stack (node heights plus
\* rowSpacing between them) plus lanePadding on both sides.
C10_LaneHeightLowerBound ==
    pcLayout = "heights" =>
        \A l \in DOMAIN laneData :
            /\ laneData[l].height >= lanes[l].height
            /\ \A r \in {nodes[i].rank : i \in DOMAIN nodes} :
                  laneData[l].height >=
                      SetSumHeights(NodesAt(lanes[l].id, r))
                        + (Cardinality(NodesAt(lanes[l].id, r)) - 1) * rowSpacing
                        + 2 * lanePadding

\* a lane grown to hold two stacked nodes of the last rank, beside a lane
\* that keeps its original height and a node whose lane is absent
C10_Witness ==
    /\ pcLayout = "heights"
    /\ \E l \in DOMAIN laneData :
          /\ laneData[l].height = 80 + 36 + rowSpacing + 2 * lanePadding
          /\ laneData[l].height > lanes[l].height
          /\ Len(laneData[l].nodesByRank[maxGlobalRank]) = 2
    /\ \E l \in DOMAIN laneData : laneData[l].height = lanes[l].height
    /\ \E i \in DOMAIN nodes : nodes[i].laneId = AbsentLane

----------------------------------------------------------------------------
(* Properties of the columns, the placement and the commands *)

LaneIdsOf(laneList) == {laneList[l].id : l \in DOMAIN laneList}

\* the nodes whose lane is a lane of this pass
Placed == {i \in DOMAIN nodes : nodes[i].laneId \in LaneIdsOf(lanes)}
PlacedAt(r) == {i \in Placed : nodes[i].rank = r}
TopRank == SetMax({0} \cup {nodes[i].rank : i \in DOMAIN nodes})

\* C11: there is one column width per rank 0..maximum rank, the same for all
\* lanes; it is at least 100 and at least the width of every node placed at
\* that rank in any lane, and it is the greatest of these.
C11_RankWidths ==
    pcLayout = "done" =>
        /\ DOMAIN rankWidths = 0 .. TopRank
        /\ \A r \in 0 .. TopRank :
              /\ rankWidths[r] >= 100
              /\ \A i \in PlacedAt(r) : rankWidths[r] >= nodes[i].width
              /\ \/ rankWidths[r] = 100
                 \/ \E i \in PlacedAt(r) : rankWidths[r] = nodes[i].width

\* a column as wide as the widest of two nodes lying in different lanes, and
\* a column of narrow nodes kept at 100
C11_Witness ==
    /\ pcLayout = "done"
    /\ \E i \in PlacedAt(0), j \in PlacedAt(0) :
          /\ nodes[i].laneId # nodes[j].laneId
          /\ nodes[i].width = 160
          /\ nodes[j].width = 36
          /\ rankWidths[0] = 160
    /\ PlacedAt(1) # {}
    /\ rankWidths[1] = 100

\* laneStartX of the claim
LaneStartX(laneId) ==
    IF laneId = rootId THEN startXOffset
    ELSE ElementOf(lanes, laneId).x + lanePadding

RECURSIVE ColumnsBefore(_)
ColumnsBefore(r) ==
    IF r = 0 THEN 0 ELSE ColumnsBefore(r - 1) + rankWidths[r - 1] + colSpacing

PositionOf(i) == nodePositions[CHOOSE k \in DOMAIN nodePositions : nodePositions[k].nodeId = i]

\* C12: a node at rank r in lane L is placed at laneStartX(L) plus the widths
\* of the columns 0..r-1, each with colSpacing; of two nodes placed in the
\* same lane the one of greater rank gets the strictly greater X.
C12_NodeX ==
    pcLayout = "done" =>
        /\ \A i \in Placed :
              PositionOf(i).x = LaneStartX(nodes[i].laneId) + ColumnsBefore(nodes[i].rank)
        /\ \A i \in Placed, j \in Placed :
              (nodes[i].laneId = nodes[j].laneId /\ nodes[i].rank < nodes[j].rank)
                  => PositionOf(i).x < PositionOf(j).x

\* the chain 1 -> 2 -> 3 at ranks 0, 1, 2 in one lane that is not the root,
\* behind a widened first column
C12_Witness ==
    /\ pcLayout = "done"
    /\ nodes[1].outgoing = <<2>>
    /\ nodes[2].outgoing = <<3>>
    /\ \A i \in 1 .. 3 : nodes[i].laneId = 2 /\ nodes[i].rank = i - 1
    /\ rootId # 2
    /\ rankWidths[0] = 160
    /\ PositionOf(1).x = 30 + lanePadding
    /\ PositionOf(2).x = PositionOf(1).x + 160 + colSpacing
    /\ PositionOf(3).x = PositionOf(2).x + 100 + colSpacing

\* the lanes that are not the root, in the order of their y
NonRootResizes ==
    LET NotRoot(rz) == rz.laneId # rootId
    IN  SelectSeq(laneResizes, NotRoot)

LaneCommands(laneId) ==
    {k \in DOMAIN commands :
        /\ commands[k].cmd \in {"resizeShape", "moveElements"}
        /\ "lane" \in DOMAIN commands[k]
        /\ commands[k].lane = laneId}

\* C19: the lane that is the root element is placed at Y = 0, also for the
\* placement of its nodes, no resizeShape or moveElements is issued for it,
\* and the other lanes are stacked from the first lane's y as if it were not
\* there.
C19_RootLanePinned ==
    (pcLayout = "done" /\ rootId \in LaneIdsOf(lanes)) =>
        /\ \A k \in DOMAIN laneResizes :
              laneResizes[k].laneId = rootId =>
                  (laneResizes[k].y = 0 /\ laneResizes[k].isRoot)
        /\ LaneCommands(rootId) = {}
        /\ \A i \in Placed :
              (nodes[i].laneId = rootId /\ pcLayout = "done") =>
                  LET meta == laneData[LaneIndex(laneData, rootId)]
                      siblings == meta.nodesByRank[nodes[i].rank]
                  IN  2 * (PositionOf(i).y - StackOffset(siblings, IndexOfNode(siblings, i)))
                          = meta.height - StackHeight(siblings)
        /\ \A k \in DOMAIN NonRootResizes :
              NonRootResizes[k].y =
                  IF k = 1 THEN SetMin({lanes[l].y : l \in DOMAIN lanes})
                  ELSE NonRootResizes[k - 1].y + NonRootResizes[k - 1].height

\* the root lane lies above the other lane and has grown to hold two stacked
\* nodes; only the other lane is resized, at the y the root lane had
C19_Witness ==
    /\ pcLayout = "done"
    /\ rootId = 1
    /\ lanes[1].y < lanes[2].y
    /\ laneData[1].height > lanes[1].height
    /\ Cardinality(PlacedAt(0) \cap {i \in DOMAIN nodes : nodes[i].laneId = 1}) = 2
    /\ LaneCommands(1) = {}
    /\ LaneCommands(2) # {}
    /\ NonRootResizes[1].y = lanes[1].y

\* the lane element with this id, as the pass found it
LaneElement(laneId) == lanes[CHOOSE l \in DOMAIN lanes : lanes[l].id = laneId]

RequiredHeight(laneId) ==
    SetMax({SetSumHeights(NodesAt(laneId, r))
              + (Cardinality(NodesAt(laneId, r)) - 1) * rowSpacing
              + 2 * lanePadding : r \in 0 .. TopRank})

\* the commands a lane gets, as records
LaneCommandList(laneId) == {commands[c] : c \in LaneCommands(laneId)}

\* what the claim has autoLayout issue for the lane element el, stacked at y
\* with the computed height
EmittedFor(el, y, height) ==
    IF height # el.height
    THEN {[cmd |-> "resizeShape", lane |-> el.id, x |-> el.x, y |-> y,
           width |-> el.width, height |-> height]}
    ELSE IF y # el.y
    THEN {[cmd |-> "moveElements", lane |-> el.id, dx |-> 0, dy |-> y - el.y]}
    ELSE {}

\* C24: a lane that is not the root gets one resizeShape, to the computed
\* height at its stacked Y, exactly when the computed height differs from its
\* current height, which is the case whenever its height is less than the
\* required content height; it gets one moveElements by (stacked Y - current
\* Y) on Y only exactly when the height is unchanged and the stacked Y
\* differs; and it gets no command when both are unchanged.
C24_LaneEmission ==
    pcLayout = "done" =>
        \A k \in DOMAIN NonRootResizes :
            /\ Cardinality(LaneCommands(NonRootResizes[k].laneId)) <= 1
            /\ LaneCommandList(NonRootResizes[k].laneId)
                  = EmittedFor(LaneElement(NonRootResizes[k].laneId),
                               NonRootResizes[k].y,
                               laneData[LaneIndex(laneData, NonRootResizes[k].laneId)].height)
            /\ LaneElement(NonRootResizes[k].laneId).height
                    < RequiredHeight(NonRootResizes[k].laneId)
                  => \E c \in LaneCommandList(NonRootResizes[k].laneId) :
                        /\ c.cmd = "resizeShape"
                        /\ c.height >= RequiredHeight(NonRootResizes[k].laneId)
                        /\ c.height > LaneElement(NonRootResizes[k].laneId).height
                        /\ c.y = NonRootResizes[k].y

\* the upper lane is too low for its two stacked nodes and is resized at the
\* Y it has; the lower lane keeps its height and is moved down by the growth
C24_Witness ==
    /\ pcLayout = "done"
    /\ Len(NonRootResizes) = 2
    /\ \E c \in LaneCommandList(NonRootResizes[1].laneId) :
          /\ c.cmd = "resizeShape"
          /\ c.height = 80 + 36 + rowSpacing + 2 * lanePadding
          /\ c.height > LaneElement(NonRootResizes[1].laneId).height
          /\ c.y = LaneElement(NonRootResizes[1].laneId).y
    /\ \E c \in LaneCommandList(NonRootResizes[2].laneId) :
          /\ c.cmd = "moveElements"
          /\ c.dx = 0
          /\ c.dy > 0

\* a lane that keeps its height and its Y gets no command
C24_NoCommand ==
    /\ pcLayout = "done"
    /\ \E k \in DOMAIN NonRootResizes :
          /\ NonRootResizes[k].y = LaneElement(NonRootResizes[k].laneId).y
          /\ NonRootResizes[k].height = LaneElement(NonRootResizes[k].laneId).height
          /\ LaneCommands(NonRootResizes[k].laneId) = {}

\* the Y the layout gives a lane: 0 for the root, else its stacked Y
LaneTop(laneId) ==
    IF laneId = rootId THEN 0
    ELSE NonRootResizes[CHOOSE k \in DOMAIN NonRootResizes :
                            NonRootResizes[k].laneId = laneId].y

ComputedHeight(laneId) == laneData[LaneIndex(laneData, laneId)].height

\* j is the next node after i, in the order of the node list, with i's lane
\* and rank
NextInStack(i, j) ==
    /\ i < j
    /\ nodes[j].laneId = nodes[i].laneId
    /\ nodes[j].rank = nodes[i].rank
    /\ \A m \in (i + 1) .. (j - 1) :
          nodes[m].laneId # nodes[i].laneId \/ nodes[m].rank # nodes[i].rank

\* C28: the Y range [y, y + height] of every placed node lies within
\* [laneY + lanePadding, laneY + laneHeight - lanePadding] of its lane, laneY
\* being 0 for the root lane and the stacked Y otherwise; of the nodes of one
\* lane and rank each starts exactly rowSpacing below the bottom of the one
\* seen before it, so that no two of them overlap.
C28_InsideLane ==
    pcLayout = "done" =>
        /\ \A i \in Placed :
              /\ PositionOf(i).y >= LaneTop(nodes[i].laneId) + lanePadding
              /\ PositionOf(i).y + nodes[i].height
                    <= LaneTop(nodes[i].laneId) + ComputedHeight(nodes[i].laneId)
                         - lanePadding
        /\ \A i, j \in Placed :
              /\ NextInStack(i, j) =>
                    PositionOf(j).y = PositionOf(i).y + nodes[i].height + rowSpacing
              /\ (/\ i < j
                  /\ nodes[j].laneId = nodes[i].laneId
                  /\ nodes[j].rank = nodes[i].rank) =>
                    PositionOf(i).y + nodes[i].height <= PositionOf(j).y

\* three nodes of one rank stacked in a lane that grew to hold them: the
\* first starts at the upper padding, the last ends at the lower one
C28_Witness ==
    /\ pcLayout = "done"
    /\ NextInStack(1, 2)
    /\ NextInStack(2, 3)
    /\ nodes[1].laneId \in LaneIdsOf(lanes) \ {rootId}
    /\ nodes[1].height # nodes[2].height
    /\ ComputedHeight(nodes[1].laneId) > LaneElement(nodes[1].laneId).height
    /\ PositionOf(1).y = LaneTop(nodes[1].laneId) + lanePadding
    /\ PositionOf(3).y + nodes[3].height
          = LaneTop(nodes[1].laneId) + ComputedHeight(nodes[1].laneId) - lanePadding
    /\ LaneTop(nodes[1].laneId) > 0

\* a stack in the root lane, placed from Y = 0
C28_RootLane ==
    /\ pcLayout = "done"
    /\ NextInStack(1, 2)
    /\ nodes[1].laneId = rootId
    /\ PositionOf(1).y < PositionOf(2).y

PresentNodes ==
    LET IsPresent(n) == n.laneId \in LaneIdsOf(lanes)
    IN  SelectSeq(nodes, IsPresent)

\* C20: a node whose laneId names no lane of the pass is in no nodesByRank,
\* gets no position and no move command, and the lane heights, the widths of
\* the columns and the positions are those of the diagram without it; every
\* node whose lane is present is placed.
C20_AbsentLaneExcluded ==
    pcLayout = "done" =>
        /\ \A l \in DOMAIN laneData : \A r \in DOMAIN laneData[l].nodesByRank :
              \A k \in DOMAIN laneData[l].nodesByRank[r] :
                  laneData[l].nodesByRank[r][k].laneId = laneData[l].id
        /\ {nodePositions[k].nodeId : k \in DOMAIN nodePositions} = Placed
        /\ Len(nodePositions) = Cardinality(Placed)
        /\ \A k \in DOMAIN commands :
              (commands[k].cmd = "moveElements" /\ "shape" \in DOMAIN commands[k])
                  => commands[k].shape \in Placed
        /\ \A l \in DOMAIN laneData :
              laneData[l].height =
                  computeLaneHeights(buildLaneData(lanes, PresentNodes), lanes,
                                     MaxRankOf(PresentNodes))[l].height
        /\ \A r \in DOMAIN rankWidths :
              rankWidths[r] =
                  IF r <= MaxRankOf(PresentNodes)
                  THEN computeRankWidths(buildLaneData(lanes, PresentNodes),
                                         MaxRankOf(PresentNodes))[r]
                  ELSE 100
        /\ nodePositions =
              NodePositions(1, PresentNodes, laneData, lanes, laneResizes, rankWidths, rootId)

\* a wide, tall node of an absent lane alone at the last rank, behind two
\* placed narrow nodes: its column stays 100 wide and no lane grows for it
C20_Witness ==
    /\ pcLayout = "done"
    /\ nodes[3].laneId = AbsentLane
    /\ nodes[3].rank = 1
    /\ nodes[3].width = 160
    /\ Placed = {1, 2}
    /\ Len(nodePositions) = 2
    /\ rankWidths[1] = 100
    /\ \A l \in DOMAIN laneData : laneData[l].height = lanes[l].height

----------------------------------------------------------------------------
(* A second autoLayout on the diagram the first one left.  The host executes *)
(* the commands of the first run as given: resizeShape sets the bounds,      *)
(* moveElements shifts the named element by the delta.                       *)

\* autoLayout from "for (const resize of laneResizes)" on
CommandsFrom(root, data, widths, resizes) ==
    IssueCommands(resizes,
                  NodePositions(1, nodes, data, lanes, resizes, widths, root),
                  lanes, nodes, data)

\* autoLayout from computeRankWidths on
CommandsOn(root, data) ==
    CommandsFrom(root, data, computeRankWidths(data, MaxRankOf(nodes)),
                 LaneResizes(data, lanes, root))

\* the commands of one whole autoLayout on the diagram, root the canvas root
autoLayout(root) ==
    CommandsOn(root, computeLaneHeights(buildLaneData(lanes, nodes), lanes,
                                        MaxRankOf(nodes)))

IsLaneCommand(c) == "lane" \in DOMAIN c
IsShapeMove(c) == c.cmd = "moveElements" /\ "shape" \in DOMAIN c

\* what the host's modeling makes of a lane element
ExecutedOnLane(el, c) ==
    IF c.cmd = "resizeShape"
    THEN [el EXCEPT !.x = c.x, !.y = c.y, !.width = c.width, !.height = c.height]
    ELSE [el EXCEPT !.x = @ + c.dx, !.y = @ + c.dy]

LaneAfter(el, laneCmds) ==
    IF \E k \in DOMAIN laneCmds : laneCmds[k].lane = el.id
    THEN ExecutedOnLane(el, laneCmds[CHOOSE k \in DOMAIN laneCmds : laneCmds[k].lane = el.id])
    ELSE el

LanesAfter(cmds) == [l \in DOMAIN lanes |-> LaneAfter(lanes[l], SelectSeq(cmds, IsLaneCommand))]
NodesAfter(cmds) == [i \in DOMAIN nodes |-> ShapeAfter(nodes[i], SelectSeq(cmds, IsShapeMove))]

\* the first autoLayout runs to its end and the host executes its commands
AutoLayoutAndExecute ==
    /\ pcLayout = "first"
    /\ rootId' \in RootIds
    /\ commands' = autoLayout(rootId')
    /\ lanes' = LanesAfter(commands')
    /\ nodes' = NodesAfter(commands')
    /\ pcLayout' = "input"
    /\ UNCHANGED <<laneData, maxGlobalRank, rankWidths, laneResizes, nodePositions, registry>>
    /\ LayoutFrame

\* the rest of the second autoLayout; the canvas root is the one it was
AutoLayoutAgain ==
    /\ pcLayout = "heights"
    /\ rankWidths' = computeRankWidths(laneData, maxGlobalRank)
    /\ laneResizes' = LaneResizes(laneData, lanes, rootId)
    /\ nodePositions' = NodePositions(1, nodes, laneData, lanes, laneResizes', rankWidths', rootId)
    /\ commands' = IssueCommands(laneResizes', nodePositions', lanes, nodes, laneData)
    /\ pcLayout' = "done"
    /\ UNCHANGED <<lanes, nodes, laneData, maxGlobalRank, rootId, registry>>
    /\ LayoutFrame

RelayoutNext ==
    \/ AutoLayoutAndExecute
    \/ BuildLaneData
    \/ ComputeLaneHeights
    \/ AutoLayoutAgain

\* C27: an autoLayout that runs right after another one, on the diagram as
\* the commands of the first left it, issues no resizeShape and no
\* moveElements: every lane that is not the root has its computed height and
\* its stacked Y, and every placed node is within 1 unit of its target on
\* both axes.
C27_SecondRunIdle ==
    pcLayout = "done" =>
        /\ \A k \in DOMAIN commands :
              commands[k].cmd \notin {"resizeShape", "moveElements"}
        /\ \A k \in DOMAIN NonRootResizes :
              /\ NonRootResizes[k].height = LaneElement(NonRootResizes[k].laneId).height
              /\ NonRootResizes[k].y = LaneElement(NonRootResizes[k].laneId).y
        /\ \A k \in DOMAIN nodePositions :
              /\ Abs(nodePositions[k].dx) <= 1
              /\ Abs(nodePositions[k].dy) <= 1

\* a second run on a diagram in which the first run made a lane higher than
\* any lane of the inputs, pushed the lane below it down and moved a node
C27_Witness ==
    /\ pcLayout = "done"
    /\ \E l \in DOMAIN lanes : lanes[l].height \notin LaneHeights
    /\ \E l \in DOMAIN lanes : lanes[l].y \notin {LaneY(pos) : pos \in LaneIds}
    /\ \E i \in Placed : nodes[i].x # ShapeX(i) /\ nodes[i].y # ShapeY(i)
    /\ \E i \in DOMAIN nodes : nodes[i].rank > 0

----------------------------------------------------------------------------
(* autoLayout from its entry: the registry, getLanes and getFlowElements *)

RegistrySize == 3        \* elements of the registry, ids 1..RegistrySize

ElementTypes ==
    {"bpmn:Lane", "bpmn:Participant", "bpmn:Process", "bpmn:Task",
     "bpmn:SequenceFlow", "bpmn:Association", "label"}

\* <<hidden, businessObject present>>
ElementFlags == {<<FALSE, TRUE>>, <<TRUE, TRUE>>, <<FALSE, FALSE>>}

\* x, y, width, height by type; a process has none (the "?? 0" defaults)
BoxOf(i, type) ==
    CASE type = "bpmn:Lane" -> [x |-> 30, y |-> LaneY(i), width |-> 600, height |-> 100]
      [] type = "bpmn:Participant" -> [x |-> 0, y |-> LaneY(i), width |-> 630, height |-> 400]
      [] type = "bpmn:Task" -> [x |-> ShapeX(i), y |-> ShapeY(i), width |-> 100, height |-> 80]
      [] OTHER -> [x |-> 0, y |-> 0, width |-> 0, height |-> 0]

\* element 1 is the parent of the others; the shapes carry no sequence flows
RegistryInputs ==
    {[i \in 1 .. RegistrySize |->
        [id |-> i, type |-> ty[i], parent |-> IF i = 1 THEN 0 ELSE 1,
         hidden |-> fl[i][1], businessObject |-> fl[i][2],
         x |-> BoxOf(i, ty[i]).x, y |-> BoxOf(i, ty[i]).y,
         width |-> BoxOf(i, ty[i]).width, height |-> BoxOf(i, ty[i]).height]] :
        ty \in [1 .. RegistrySize -> ElementTypes],
        fl \in [1 .. RegistrySize -> ElementFlags]}

OfType(reg, type) ==
    LET HasType(e) == e.type = type
    IN  SelectSeq(reg, HasType)

getLanes(reg) ==
    IF OfType(reg, "bpmn:Lane") # <<>> THEN OfType(reg, "bpmn:Lane")
    ELSE IF OfType(reg, "bpmn:Participant") # <<>> THEN OfType(reg, "bpmn:Participant")
    ELSE OfType(reg, "bpmn:Process")

getFlowElements(reg) ==
    LET IsFlowElement(e) ==
            /\ e.type # "bpmn:Lane"
            /\ e.type # "bpmn:Participant"
            /\ e.type # "bpmn:Process"
            /\ e.type # "bpmn:SequenceFlow"
            /\ e.type # "bpmn:Association"
            /\ e.type # "label"
            /\ ~e.hidden
            /\ e.businessObject
    IN  SelectSeq(reg, IsFlowElement)

\* lanes.map((lane) => ({id, y, height, element: lane}))
LaneInput(laneElements) ==
    [l \in 1 .. Len(laneElements) |->
        [id |-> laneElements[l].id, x |-> laneElements[l].x, y |-> laneElements[l].y,
         width |-> laneElements[l].width, height |-> laneElements[l].height]]

\* buildGraphFromElements and assignRanks on shapes without outgoing flows:
\* every node is a seed and keeps rank 0
GraphNodes(elements) ==
    [i \in 1 .. Len(elements) |->
        [id |-> elements[i].id, laneId |-> elements[i].parent, rank |-> 0,
         width |-> elements[i].width, height |-> elements[i].height,
         x |-> elements[i].x, y |-> elements[i].y, outgoing |-> <<>>]]

NothingToLayoutBug(laneElements, elements) == Len(laneElements) = 0

\* if (lanes.length === 0 || elements.length === 0) return;
NothingToLayout(laneElements, elements) ==
    Len(laneElements) = 0 \/ Len(elements) = 0

\* autoLayout up to buildLaneData: it returns at once or goes on with the
\* lanes and the ranked nodes
EnterAutoLayout ==
    /\ pcLayout = "entry"
    /\ lanes' = LaneInput(getLanes(registry))
    /\ nodes' = GraphNodes(getFlowElements(registry))
    /\ pcLayout' = IF NothingToLayout(getLanes(registry), getFlowElements(registry))
                   THEN "done" ELSE "input"
    /\ UNCHANGED <<registry, laneData, maxGlobalRank>>
    /\ UNCHANGED <<rootId, rankWidths, laneResizes, nodePositions, commands>>
    /\ LayoutFrame

AutoNext ==
    \/ EnterAutoLayout
    \/ LayoutNext

LaneTypes == {"bpmn:Lane", "bpmn:Participant", "bpmn:Process"}
NoFlowTypes == LaneTypes \cup {"bpmn:SequenceFlow", "bpmn:Association", "label"}

NoLaneElement == \A i \in DOMAIN registry : registry[i].type \notin LaneTypes

NoEligibleElement ==
    \A i \in DOMAIN registry :
        \/ registry[i].type \in NoFlowTypes
        \/ registry[i].hidden
        \/ ~registry[i].businessObject

\* C17: on a registry with no Lane, Participant or Process element, or with
\* no eligible flow element, autoLayout returns at once: it computes no
\* layout and issues no resize, move or waypoint command.
C17_NoOpWithoutInputs ==
    (pcLayout # "entry" /\ (NoLaneElement \/ NoEligibleElement)) =>
        /\ pcLayout = "done"
        /\ laneData = <<>>
        /\ laneResizes = <<>>
        /\ nodePositions = <<>>
        /\ commands = <<>>

\* two lanes 100 high, which a layout pass would resize, and a hidden task:
\* the call has returned without a command
C17_Witness ==
    /\ pcLayout = "done"
    /\ registry[1].type = "bpmn:Lane"
    /\ registry[2].type = "bpmn:Lane"
    /\ registry[3].type = "bpmn:Task"
    /\ registry[3].hidden
    /\ Len(lanes) = 2
    /\ nodes = <<>>
    /\ commands = <<>>

----------------------------------------------------------------------------
(* Specifications *)

RankInit == RankIdle /\ RouteIdle /\ CollisionIdle /\ LayoutIdle

SpecRank == RankInit /\ [][RankNext]_vars

RouteInit ==
    /\ RankIdle
    /\ CollisionIdle
    /\ LayoutIdle
    /\ routeSource \in Boxes
    /\ routeTarget \in Boxes
    /\ routed = <<>>
    /\ pcRoute = "input"

SpecRoute == RouteInit /\ [][RouteNext]_vars

DriftInit ==
    /\ RankIdle
    /\ RouteIdle
    /\ connections \in ConnInputs(NumConns)
    /\ DriftIdle
    /\ ResolveIdle
    /\ HostIdle
    /\ LayoutIdle
    /\ SegIdle

SpecDrift == DriftInit /\ [][DriftNext]_vars

ResolveInit ==
    /\ RankIdle
    /\ RouteIdle
    /\ connections \in ConnInputs(NumConns) \cup ConnInputs(NumConns - 1)
    /\ DriftIdle
    /\ ResolveIdle
    /\ HostIdle
    /\ LayoutIdle
    /\ SegIdle

SpecResolve == ResolveInit /\ [][ResolveNext]_vars

HostInit ==
    /\ RankIdle
    /\ RouteIdle
    /\ connections \in ConnInputs(NumConns - 1)
    /\ DriftIdle
    /\ ResolveIdle
    /\ HostIdle
    /\ LayoutIdle
    /\ SegIdle

SpecHost == HostInit /\ [][HostNext]_vars

LayoutInit ==
    /\ RankIdle
    /\ RouteIdle
    /\ CollisionIdle
    /\ lanes \in LaneInputs
    /\ nodes \in NodeInputs
    /\ NothingDone
    /\ registry = <<>>
    /\ pcLayout = "input"

SpecLayout == LayoutInit /\ [][LayoutNext]_vars

RelayoutInit ==
    /\ RankIdle
    /\ RouteIdle
    /\ CollisionIdle
    /\ lanes \in LaneInputs
    /\ nodes \in NodeInputs
    /\ NothingDone
    /\ registry = <<>>
    /\ pcLayout = "first"

SpecRelayout == RelayoutInit /\ [][RelayoutNext]_vars

AutoInit ==
    /\ RankIdle
    /\ RouteIdle
    /\ CollisionIdle
    /\ registry \in RegistryInputs
    /\ lanes = <<>>
    /\ nodes = <<>>
    /\ NothingDone
    /\ pcLayout = "entry"

SpecAuto == AutoInit /\ [][AutoNext]_vars

SegInit ==
    /\ RankIdle
    /\ RouteIdle
    /\ connections = <<>>
    /\ DriftIdle
    /\ ResolveIdle
    /\ HostIdle
    /\ LayoutIdle
    /\ \E a1 \in Points, a2 \in Points : segA = Segment(1, a1, a2)
    /\ \E ib \in {1, 2}, b1 \in Points, b2 \in Points : segB = Segment(ib, b1, b2)
    /\ segThreshold \in Thresholds
    /\ collidesAB = FALSE
    /\ collidesBA = FALSE
    /\ reported = {}
    /\ pcSeg = "input"

SpecSegments == SegInit /\ [][SegNext]_vars

====
